---- MODULE Spec2Model ----
(***************************************************************************)
(* charm-cli: the job client (submit / poll / fetch) of the transcribe,    *)
(* chunk and summarize commands, and the placeholder documents transcribe  *)
(* synthesizes under --continue-on-failure.                                *)
(*                                                                         *)
(* Conventions of the model                                                *)
(*   - a JavaScript string built by a template is a sequence of STRING     *)
(*     tokens; `+` and template interpolation are \o; .length is Len;      *)
(*   - a path is the sequence of its dot-separated components, so          *)
(*     "a.pdf" is <<"a", "pdf">> (no directories: path.basename is the     *)
(*     path itself);                                                       *)
(*   - a JSON value is a record; a key that is absent in JSON is absent    *)
(*     from the record's DOMAIN; JSON null is JsonNull;                    *)
(*   - one action is the code between two awaits of the command.           *)
(***************************************************************************)
EXTENDS Integers, Sequences, FiniteSets, TLC

(***************************************************************************)
(* Bounds of the model.                                                    *)
(***************************************************************************)
\* longest input file, in bytes
MaxFileLen == 1
\* most status polls answered with a non-terminal status, per job
MaxPolls == 1
\* latest clock reading (new Date()) a synthesizer can take
MaxTime == 1

(***************************************************************************)
(* Values.                                                                 *)
(***************************************************************************)
Byte == {0, 1}

RECURSIVE BytesUpTo(_)
BytesUpTo(n) ==
    IF n = 0 THEN {<< >>}
    ELSE LET shorter == BytesUpTo(n - 1)
         IN  shorter \cup {Append(b, x) : b \in {s \in shorter : Len(s) = n - 1}, x \in Byte}

FileBytes == BytesUpTo(MaxFileLen)

Times == 0..MaxTime

\* JSON null, an unassigned JavaScript variable, a body that is not JSON
JsonNull == [jsonNull |-> TRUE]
Undefined == [undefined |-> TRUE]
InvalidJson == [invalidJson |-> TRUE]

\* JavaScript truthiness of a parsed JSON document / of a string / of a number
Truthy(v) == v # JsonNull /\ v # Undefined
TruthyStr(s) == s # ""
Has(rec, key) == key \in DOMAIN rec

\* a || b for an optional string field of a JSON object
OrElse(rec, key, dflt) == IF Has(rec, key) /\ TruthyStr(rec[key]) THEN rec[key] ELSE dflt

Str(s) == <<s>>

\* {} and obj[key] = val
EmptyObject == [k \in {} |-> TRUE]

SetField(rec, key, val) ==
    [k \in DOMAIN rec \cup {key} |-> IF k = key THEN val ELSE rec[k]]

(***************************************************************************)
(* Paths.                                                                  *)
(***************************************************************************)
NoPath == << >>

\* path.extname(p), without the dot
extname(p) == IF Len(p) >= 2 THEN p[Len(p)] ELSE ""

EndsWith(p, suffix) ==
    /\ Len(p) > Len(suffix)
    /\ SubSeq(p, Len(p) - Len(suffix) + 1, Len(p)) = suffix

\* p.replace(/\.<suffix>$/i, '.' + repl): only a match is rewritten
ReplaceSuffix(p, suffix, repl) ==
    IF EndsWith(p, suffix)
    THEN SubSeq(p, 1, Len(p) - Len(suffix)) \o repl
    ELSE p

(***************************************************************************)
(* crypto.createHash('sha256').update(fileBuffer).digest('hex'): a digest  *)
(* computed from the bytes alone, byte by byte, rendered as a string.      *)
(***************************************************************************)
RECURSIVE digest(_)
digest(bytes) ==
    IF bytes = << >> THEN 7
    ELSE (digest(SubSeq(bytes, 1, Len(bytes) - 1)) * 31 + bytes[Len(bytes)] + 1) % 65536

sha256hex(fileBuffer) == ToString(digest(fileBuffer))

toISOString(t) == ToString(t)

mimetypeOf(inputFile) ==
    IF extname(inputFile) = "pdf"
    THEN "application/pdf"
    ELSE "application/vnd.openxmlformats-officedocument.wordprocessingml.document"

(***************************************************************************)
(* The Degradation Synthesizer: the four createPartialResultFrom*          *)
(* functions.  fileBuffer is what fs.readFileSync(inputFile) returns, t1   *)
(* and t2 the two successive readings of the clock.                        *)
(***************************************************************************)
placeholderDoc(fileHash, fileBuffer, inputFile, model, errorContent, errorType, errorMessage, t2, failurePoint, description) ==
    [ id |-> fileHash,
      content |-> errorContent,
      metadata |->
        [ mimetype |-> mimetypeOf(inputFile),
          document_sha256 |-> fileHash,
          size_bytes |-> Len(fileBuffer),
          originating_filename |-> inputFile,
          transcription_status |-> "failed",
          transcription_error |->
            [ error_type |-> errorType,
              error_message |-> errorMessage,
              timestamp |-> toISOString(t2),
              model_used |-> model,
              failure_point |-> failurePoint ] ],
      chunks |->
        [ pages |->
            << [ id |-> <<fileHash, "/pages@", "0">>,
                 parent |-> fileHash,
                 start |-> 0,
                 length |-> Len(errorContent),
                 content |-> errorContent,
                 metadata |->
                   [ page_number |-> 1,
                     text_extraction_method |-> "error_placeholder",
                     extraction_confidence |-> 0,
                     model_name |-> model,
                     isFirstPage |-> TRUE,
                     originating_filename |-> inputFile,
                     originating_file_sha256 |-> fileHash,
                     transcription_failed |-> TRUE,
                     error_type |-> errorType,
                     error_message |-> errorMessage ],
                 annotations |-> [ description |-> description ] ] >> ] ]

\* createPartialResultFromError whose chunk has no `parent`
createPartialResultFromErrorOrphanChunk(statusRes, inputFile, model, fileBuffer, t1, t2) ==
    LET fileHash == sha256hex(fileBuffer)
        errorContent ==
            << "<!-- TRANSCRIPTION FAILURE -->",
               "<!-- This page failed to transcribe due to an error -->",
               "# Transcription Failed",
               "**Error Type:** ", OrElse(statusRes, "error_type", "Unknown"),
               "**Error Message:** ", OrElse(statusRes, "error", "No error message provided"),
               "**Timestamp:** ", toISOString(t1),
               "**Model:** ", model >>
        d == placeholderDoc(fileHash, fileBuffer, inputFile, model, errorContent,
                            OrElse(statusRes, "error_type", "job_error"),
                            Str(OrElse(statusRes, "error", "Unknown error")),
                            t2, "job_processing",
                            "This page contains a transcription failure notice because the original transcription process failed.")
        chunk == d.chunks.pages[1]
    IN  [d EXCEPT !.chunks.pages = << [f \in DOMAIN chunk \ {"parent"} |-> chunk[f]] >>]

createPartialResultFromError(statusRes, inputFile, model, fileBuffer, t1, t2) ==
    LET fileHash == sha256hex(fileBuffer)
        errorContent ==
            << "<!-- TRANSCRIPTION FAILURE -->",
               "<!-- This page failed to transcribe due to an error -->",
               "# Transcription Failed",
               "**Error Type:** ", OrElse(statusRes, "error_type", "Unknown"),
               "**Error Message:** ", OrElse(statusRes, "error", "No error message provided"),
               "**Timestamp:** ", toISOString(t1),
               "**Model:** ", model >>
    IN  placeholderDoc(fileHash, fileBuffer, inputFile, model, errorContent,
                       OrElse(statusRes, "error_type", "job_error"),
                       Str(OrElse(statusRes, "error", "Unknown error")),
                       t2, "job_processing",
                       "This page contains a transcription failure notice because the original transcription process failed.")

\* createPartialResultFromHttpError returning a `pages` group without a chunk
createPartialResultFromHttpErrorNoChunk(httpStatus, errorBody, inputFile, model, fileBuffer, t1, t2) ==
    LET fileHash == sha256hex(fileBuffer)
        errorContent ==
            << "<!-- TRANSCRIPTION FAILURE -->",
               "<!-- Result retrieval failed with HTTP error -->",
               "# Transcription Result Retrieval Failed",
               "**HTTP Status:** ", ToString(httpStatus),
               "**Error Response:** ", errorBody,
               "**Timestamp:** ", toISOString(t1),
               "**Model:** ", model >>
        d == placeholderDoc(fileHash, fileBuffer, inputFile, model, errorContent,
                            "http_error",
                            <<"HTTP ", ToString(httpStatus), ": ", errorBody>>,
                            t2, "result_retrieval",
                            "This page contains a transcription failure notice because the result could not be retrieved from the server.")
    IN  [d EXCEPT !.chunks.pages = << >>]

createPartialResultFromHttpError(httpStatus, errorBody, inputFile, model, fileBuffer, t1, t2) ==
    LET fileHash == sha256hex(fileBuffer)
        errorContent ==
            << "<!-- TRANSCRIPTION FAILURE -->",
               "<!-- Result retrieval failed with HTTP error -->",
               "# Transcription Result Retrieval Failed",
               "**HTTP Status:** ", ToString(httpStatus),
               "**Error Response:** ", errorBody,
               "**Timestamp:** ", toISOString(t1),
               "**Model:** ", model >>
    IN  placeholderDoc(fileHash, fileBuffer, inputFile, model, errorContent,
                       "http_error",
                       <<"HTTP ", ToString(httpStatus), ": ", errorBody>>,
                       t2, "result_retrieval",
                       "This page contains a transcription failure notice because the result could not be retrieved from the server.")

\* createPartialResultFromTimeout labelled as the exception synthesizer is
createPartialResultFromTimeoutMislabelled(inputFile, model, fileBuffer, t1, t2) ==
    LET fileHash == sha256hex(fileBuffer)
        errorContent ==
            << "<!-- TRANSCRIPTION FAILURE -->",
               "<!-- Transcription process timed out -->",
               "# Transcription Timed Out",
               "**Error Type:** Processing Timeout",
               "**Timestamp:** ", toISOString(t1),
               "**Model:** ", model >>
    IN  placeholderDoc(fileHash, fileBuffer, inputFile, model, errorContent,
                       "exception",
                       Str("Transcription process timed out"),
                       t2, "processing_timeout",
                       "This page contains a transcription failure notice because the transcription process timed out.")

createPartialResultFromTimeout(inputFile, model, fileBuffer, t1, t2) ==
    LET fileHash == sha256hex(fileBuffer)
        errorContent ==
            << "<!-- TRANSCRIPTION FAILURE -->",
               "<!-- Transcription process timed out -->",
               "# Transcription Timed Out",
               "**Error Type:** Processing Timeout",
               "**Timestamp:** ", toISOString(t1),
               "**Model:** ", model >>
    IN  placeholderDoc(fileHash, fileBuffer, inputFile, model, errorContent,
                       "timeout",
                       Str("Transcription process timed out"),
                       t2, "processing_timeout",
                       "This page contains a transcription failure notice because the transcription process timed out.")

\* createPartialResultFromException hashing without .update(fileBuffer)
createPartialResultFromExceptionNoUpdate(error, inputFile, model, fileBuffer, t1, t2) ==
    LET fileHash == sha256hex(<< >>)
        message == IF error.message # << >> THEN error.message ELSE Str("Unknown exception")
        errorContent ==
            << "<!-- TRANSCRIPTION FAILURE -->",
               "<!-- Transcription failed with exception -->",
               "# Transcription Exception",
               "**Error Type:** Exception",
               "**Error Message:** " >> \o message \o
            << "**Timestamp:** ", toISOString(t1),
               "**Model:** ", model >>
    IN  placeholderDoc(fileHash, fileBuffer, inputFile, model, errorContent,
                       "exception",
                       message,
                       t2, "exception_during_processing",
                       "This page contains a transcription failure notice because the transcription process encountered an exception.")

createPartialResultFromException(error, inputFile, model, fileBuffer, t1, t2) ==
    LET fileHash == sha256hex(fileBuffer)
        message == IF error.message # << >> THEN error.message ELSE Str("Unknown exception")
        errorContent ==
            << "<!-- TRANSCRIPTION FAILURE -->",
               "<!-- Transcription failed with exception -->",
               "# Transcription Exception",
               "**Error Type:** Exception",
               "**Error Message:** " >> \o message \o
            << "**Timestamp:** ", toISOString(t1),
               "**Model:** ", model >>
    IN  placeholderDoc(fileHash, fileBuffer, inputFile, model, errorContent,
                       "exception",
                       message,
                       t2, "exception_during_processing",
                       "This page contains a transcription failure notice because the transcription process encountered an exception.")

(***************************************************************************)
(* What the server can answer.  A response is what `await fetch(...)`      *)
(* gives: a transport failure (fetch rejects), or an HTTP status with a    *)
(* body; `text` is resp.text(), `json` is resp.json() (InvalidJson: the    *)
(* body does not parse and resp.json() rejects).                           *)
(***************************************************************************)
NoResp == [net |-> FALSE, status |-> -1, text |-> "", json |-> Undefined]
NetErr == [net |-> FALSE, status |-> 0, text |-> "", json |-> InvalidJson]
Http(status, text, json) == [net |-> TRUE, status |-> status, text |-> text, json |-> json]

\* resp.ok of node-fetch
ok(resp) == resp.status >= 200 /\ resp.status < 300

SubmitResponses ==
    { NetErr,
      Http(500, "Internal Server Error", InvalidJson),
      Http(200, "<html>", InvalidJson),
      Http(200, "", [message |-> "accepted"]),
      Http(200, "", [job_id |-> "job-1"]) }

PendingBodies ==
    { [status |-> "processing", pages_total |-> 3, pages_converted |-> 1],
      [status |-> "failed"],
      [status |-> "completed"] }

ErrorBodies ==
    { [status |-> "error", error |-> "boom", error_type |-> "OCRError"],
      [status |-> "error"] }

StatusResponses ==
    { NetErr,
      Http(500, "Internal Server Error", InvalidJson),
      Http(200, "<html>", InvalidJson),
      Http(200, "", JsonNull) }
    \cup { Http(200, "", b) : b \in PendingBodies \cup ErrorBodies \cup {[status |-> "complete"]} }

\* documents a conversion job may return
ServerChunk(n) ==
    [ id |-> <<"srv-doc", "/pages@", ToString(n)>>,
      parent |-> "srv-doc",
      content |-> <<"page text">>,
      metadata |-> [page_number |-> n + 1] ]

GoodDoc ==
    [ id |-> "srv-doc",
      metadata |-> [ originating_filename |-> <<"a", "pdf">>,
                     transcription_status |-> "complete" ],
      chunks |-> [ pages |-> <<ServerChunk(0), ServerChunk(1)>> ] ]

PlainDoc ==
    [ id |-> "srv-doc",
      content |-> <<"whole text">>,
      metadata |-> [ size_bytes |-> 0 ],
      chunks |-> [ pages |-> <<ServerChunk(0)>> ] ]

NoPagesDoc ==
    [ id |-> "srv-doc",
      content |-> <<"whole text">>,
      metadata |-> [ originating_filename |-> <<"a", "pdf">> ] ]

BarePageDoc ==
    [ id |-> "srv-doc",
      chunks |-> [ pages |-> << [content |-> <<"page text">>] >> ] ]

ConversionResults == { GoodDoc, PlainDoc, NoPagesDoc, BarePageDoc, JsonNull }

ConversionResultResponses ==
    { NetErr,
      Http(500, "Internal Server Error", InvalidJson),
      Http(202, "", [status |-> "processing"]),
      Http(200, "<html>", InvalidJson) }
    \cup { Http(200, "", d) : d \in ConversionResults }

(***************************************************************************)
(* convertDocToMarkdown                                                    *)
(***************************************************************************)
RECURSIVE pagesMarkdown(_, _)
pagesMarkdown(pages, k) ==
    IF k > Len(pages) THEN << >>
    ELSE LET page == pages[k]
             separator ==
                 IF /\ Len(pages) > 1
                    /\ Has(page, "metadata")
                    /\ Has(page.metadata, "page_number")
                    /\ page.metadata.page_number # 0
                 THEN <<"<!-- Page ", ToString(page.metadata.page_number), " -->">>
                 ELSE << >>
         IN  (IF Has(page, "content") /\ page.content # << >>
              THEN separator \o page.content
              ELSE << >>) \o pagesMarkdown(pages, k + 1)

convertDocToMarkdown(docObject) ==
    IF ~Truthy(docObject)
    THEN <<"# Error", "No document content available.">>
    ELSE LET meta == docObject.metadata
             header ==
                 IF ~Has(docObject, "metadata") THEN << >>
                 ELSE <<"<!--">>
                      \o (IF Has(meta, "originating_filename") /\ meta.originating_filename # << >>
                          THEN <<"filename: ">> \o meta.originating_filename ELSE << >>)
                      \o (IF Has(meta, "document_sha256") /\ TruthyStr(meta.document_sha256)
                          THEN <<"sha256: ", meta.document_sha256>> ELSE << >>)
                      \o (IF Has(meta, "size_bytes") /\ meta.size_bytes # 0
                          THEN <<"size: ", ToString(meta.size_bytes), " bytes">> ELSE << >>)
                      \o (IF Has(meta, "transcription_status") /\ TruthyStr(meta.transcription_status)
                          THEN <<"status: ", meta.transcription_status>> ELSE << >>)
                      \o <<"-->">>
             body ==
                 IF Has(docObject, "content") /\ docObject.content # << >>
                 THEN docObject.content ELSE << >>
             pages ==
                 IF Has(docObject, "chunks") /\ Has(docObject.chunks, "pages")
                 THEN pagesMarkdown(docObject.chunks.pages, 1) ELSE << >>
         IN  header \o body \o pages

(***************************************************************************)
(* Files.  A file holds raw bytes, or the text JSON.stringify or           *)
(* convertDocToMarkdown produced; reading a path that holds nothing fails. *)
(***************************************************************************)
Absent == [kind |-> "absent"]
BytesFile(bytes) == [kind |-> "bytes", bytes |-> bytes]
\* JSON.stringify(value, null, 2) written as utf-8
JsonFile(value) == [kind |-> "json", json |-> value]
MarkdownFile(md) == [kind |-> "md", md |-> md]

ReadFile(files, path) == IF path \in DOMAIN files THEN files[path] ELSE Absent

WriteFile(files, path, content) ==
    [p \in DOMAIN files \cup {path} |-> IF p = path THEN content ELSE files[p]]

(***************************************************************************)
(* State.                                                                  *)
(***************************************************************************)
VARIABLES
    cmd,                \* the command of this invocation
    batchMode,          \* transcribe --batch
    continueOnFailure,  \* transcribe --continue-on-failure
    outputFormat,       \* transcribe --output-format
    inline,             \* chunk / summarize --inline
    outputFlag,         \* --output / --output-file, NoPath when not given
    model,              \* globalFlags.model
    pollInterval,       \* --poll-interval, in seconds
    batchFileList,      \* the input files, in order (one file outside batch mode)
    fs,                 \* the local files: path -> content
    i,                  \* index in batchFileList of the file being processed
    pc,                 \* what the command is awaiting
    exitCode,           \* the process's exit code, -1 while it runs
    outputPath,         \* the output path computed for the current file
    docObj,             \* chunk / summarize: the parsed input document
    jobId,              \* the job id the server returned for the current file
    finalDoc,           \* the current file's result document
    polls,              \* status polls of the current job answered non-terminally
    log,                \* the current file's requests, responses, sleeps and writes, in order
    synA,               \* the synthesizers alone: first invocation
    synB,               \* the synthesizers alone: second invocation, on the same bytes
    chunkGroupName,     \* merge-transcriptions --chunk-group
    docs,               \* merge-transcriptions: the parsed input documents, in order
    pageIndex,          \* merge-transcriptions: the page being reconciled, from 0
    mergedDoc,          \* merge-transcriptions: the merged document under construction
    metaDoc,            \* metadata reconciliation alone: a document-level merge
    metaPage,           \* metadata reconciliation alone: a page-level merge
    transcript          \* chat: transcript.messages

config == <<cmd, batchMode, continueOnFailure, outputFormat, inline, outputFlag,
            model, pollInterval, batchFileList, chunkGroupName>>
synVars == <<synA, synB>>
mergeVars == <<docs, pageIndex, mergedDoc>>
metaVars == <<metaDoc, metaPage>>
vars == <<cmd, batchMode, continueOnFailure, outputFormat, inline, outputFlag,
          model, pollInterval, batchFileList, fs, i, pc, exitCode, outputPath,
          docObj, jobId, finalDoc, polls, log, synA, synB,
          chunkGroupName, docs, pageIndex, mergedDoc, metaDoc, metaPage, transcript>>

DefaultPollInterval == 3
DefaultModel == "gpt-4o-mini"
Models == {"gpt-4o-mini", "gpt-4o"}
NoJob == ""

inputFile == batchFileList[i]

\* log entries: a request issued, a response received, a sleep started, a call
\* of fs.writeFileSync (doc: the document it serializes, content: what the file
\* then holds)
Req(ev) ==
    [file |-> i, dir |-> "req", ev |-> ev, resp |-> NoResp, secs |-> 0,
     path |-> NoPath, doc |-> Undefined, content |-> Absent]
Resp(ev, r) ==
    [file |-> i, dir |-> "resp", ev |-> ev, resp |-> r, secs |-> 0,
     path |-> NoPath, doc |-> Undefined, content |-> Absent]
\* a sleep of the default interval, whatever --poll-interval says
SleptDefault ==
    [file |-> i, dir |-> "sleep", ev |-> "sleep", resp |-> NoResp, secs |-> DefaultPollInterval,
     path |-> NoPath, doc |-> Undefined, content |-> Absent]
Slept ==
    [file |-> i, dir |-> "sleep", ev |-> "sleep", resp |-> NoResp, secs |-> pollInterval,
     path |-> NoPath, doc |-> Undefined, content |-> Absent]
Wrote(path, doc, content) ==
    [file |-> i, dir |-> "write", ev |-> "write", resp |-> NoResp, secs |-> 0,
     path |-> path, doc |-> doc, content |-> content]
WriteFailed(path, doc, content) ==
    [file |-> i, dir |-> "write", ev |-> "write-failed", resp |-> NoResp, secs |-> 0,
     path |-> path, doc |-> doc, content |-> content]

(***************************************************************************)
(* Errors (only the message of an Error is modelled).                      *)
(***************************************************************************)
NoError == [message |-> << >>]
NetworkError == [message |-> <<"request to server failed">>]
JsonParseError == [message |-> <<"invalid json response body">>]
TypeError == [message |-> <<"Cannot read properties of null">>]
Error(message) == [message |-> message]

(***************************************************************************)
(* process.exit(code); the end of main(); main().catch                     *)
(***************************************************************************)
Exit(code) ==
    /\ pc' = "exited"
    /\ exitCode' = code
    /\ i' = i

\* commandTranscribe: the batch loop moves to the next file, or the command
\* returns and the process ends normally
NextFileOrReturn ==
    IF batchMode /\ i < Len(batchFileList)
    THEN /\ pc' = "start"
         /\ i' = i + 1
         /\ exitCode' = exitCode
    ELSE Exit(0)

\* a batch loop whose catch always ends the process
afterTranscribeSingleFileAborts(threw) ==
    IF threw THEN Exit(1) ELSE NextFileOrReturn

\* a batch loop whose catch only warns, whatever --continue-on-failure
afterTranscribeSingleFileWarnsOnly(threw) ==
    IF threw /\ ~batchMode THEN Exit(1) ELSE NextFileOrReturn

\* a batch loop whose catch, under --continue-on-failure, starts the same file again
afterTranscribeSingleFileRetries(threw) ==
    IF threw
    THEN IF batchMode /\ continueOnFailure
         THEN pc' = "start" /\ i' = i /\ exitCode' = exitCode
         ELSE Exit(1)
    ELSE NextFileOrReturn

\* what follows `await transcribeSingleFile(...)`: threw is TRUE when it rejected
afterTranscribeSingleFile(threw) ==
    IF threw
    THEN IF batchMode /\ continueOnFailure THEN NextFileOrReturn ELSE Exit(1)
    ELSE NextFileOrReturn

(***************************************************************************)
(* transcribe (bin/commands/transcribe.mjs)                                *)
(***************************************************************************)
transcribeOutputPath(file, flag, format) ==
    IF flag # NoPath THEN flag
    ELSE IF extname(file) = "pdf"
         THEN ReplaceSuffix(file, <<"pdf">>,
                            IF format = "md" THEN <<"pdf", "md">> ELSE <<"pdf", "doc", "json">>)
    ELSE IF extname(file) = "docx"
         THEN ReplaceSuffix(file, <<"docx">>,
                            IF format = "md" THEN <<"docx", "md">> ELSE <<"docx", "doc", "json">>)
    ELSE file \o (IF format = "md" THEN <<"md">> ELSE <<"doc", "json">>)

\* submitOutcome without the `if (!jobId) throw`: the poll loop is entered with
\* whatever the answer held
submitOutcomeUncheckedJobId(resp) ==
    IF ~resp.net \/ ~ok(resp) \/ resp.json = InvalidJson \/ resp.json = JsonNull
        THEN [threw |-> TRUE, jobId |-> NoJob,
              error |-> Error(<<"Failed to start document conversion: ">>)]
    ELSE [threw |-> FALSE, jobId |-> OrElse(resp.json, "job_id", NoJob), error |-> NoError]

\* the submit: POST .../conversions/documents
submitOutcome(resp) ==
    IF ~resp.net
        THEN [threw |-> TRUE, jobId |-> NoJob,
              error |-> Error(<<"Failed to start document conversion: ">> \o NetworkError.message)]
    ELSE IF ~ok(resp)
        THEN [threw |-> TRUE, jobId |-> NoJob,
              error |-> Error(<<"Failed to start document conversion: ", "HTTP ",
                                ToString(resp.status), " => ", resp.text>>)]
    ELSE IF resp.json = InvalidJson
        THEN [threw |-> TRUE, jobId |-> NoJob,
              error |-> Error(<<"Failed to start document conversion: ">> \o JsonParseError.message)]
    ELSE IF resp.json = JsonNull
        THEN [threw |-> TRUE, jobId |-> NoJob,
              error |-> Error(<<"Failed to start document conversion: ">> \o TypeError.message)]
    ELSE IF ~Has(resp.json, "job_id") \/ ~TruthyStr(resp.json.job_id)
        THEN [threw |-> TRUE, jobId |-> NoJob,
              error |-> Error(<<"Failed to start document conversion: ",
                                "No job_id returned by the server.">>)]
    ELSE [threw |-> FALSE, jobId |-> resp.json.job_id, error |-> NoError]

\* statusOutcome synthesizing on an `error` status whatever --continue-on-failure
statusOutcomeAlwaysSynthesizes(resp, cof, file, mdl, fileBuffer, t1, t2) ==
    IF ~resp.net \/ ~ok(resp) \/ resp.json = InvalidJson \/ resp.json = JsonNull
        THEN [next |-> "throw", finalDoc |-> Undefined,
              error |-> Error(<<"Polling job status failed: ">>)]
    ELSE IF Has(resp.json, "status") /\ resp.json.status = "error"
        THEN [next |-> "write",
              finalDoc |-> createPartialResultFromError(resp.json, file, mdl, fileBuffer, t1, t2),
              error |-> NoError]
    ELSE IF Has(resp.json, "status") /\ resp.json.status = "complete"
        THEN [next |-> "fetch", finalDoc |-> Undefined, error |-> NoError]
    ELSE [next |-> "sleep", finalDoc |-> Undefined, error |-> NoError]

\* a poll loop that, on `error`, breaks without setting finalDoc and so goes
\* on to the result fetch
statusOutcomeFetchesAfterError(resp, cof, file, mdl, fileBuffer, t1, t2) ==
    IF ~resp.net \/ ~ok(resp) \/ resp.json = InvalidJson \/ resp.json = JsonNull
        THEN [next |-> "throw", finalDoc |-> Undefined,
              error |-> Error(<<"Polling job status failed: ">>)]
    ELSE IF Has(resp.json, "status") /\ resp.json.status = "error"
        THEN IF cof
             THEN [next |-> "fetch", finalDoc |-> Undefined, error |-> NoError]
             ELSE [next |-> "throw", finalDoc |-> Undefined,
                   error |-> Error(<<"Job error: ", OrElse(resp.json, "error", "undefined")>>)]
    ELSE IF Has(resp.json, "status") /\ resp.json.status = "complete"
        THEN [next |-> "fetch", finalDoc |-> Undefined, error |-> NoError]
    ELSE [next |-> "sleep", finalDoc |-> Undefined, error |-> NoError]

\* a poll loop that logs `complete` as progress and goes round again
statusOutcomeIgnoresComplete(resp, cof, file, mdl, fileBuffer, t1, t2) ==
    IF ~resp.net \/ ~ok(resp) \/ resp.json = InvalidJson \/ resp.json = JsonNull
        THEN [next |-> "throw", finalDoc |-> Undefined,
              error |-> Error(<<"Polling job status failed: ">>)]
    ELSE IF Has(resp.json, "status") /\ resp.json.status = "error"
        THEN IF cof
             THEN [next |-> "write",
                   finalDoc |-> createPartialResultFromError(resp.json, file, mdl, fileBuffer, t1, t2),
                   error |-> NoError]
             ELSE [next |-> "throw", finalDoc |-> Undefined,
                   error |-> Error(<<"Job error: ", OrElse(resp.json, "error", "undefined")>>)]
    ELSE [next |-> "sleep", finalDoc |-> Undefined, error |-> NoError]

\* one round of the poll loop, after the sleep: GET .../{jobId}
\*   next = "throw": the function rejects;  "write": finalDoc is set, the loop is left;
\*          "fetch": the loop is left with finalDoc unset;  "sleep": another round
statusOutcome(resp, cof, file, mdl, fileBuffer, t1, t2) ==
    IF ~resp.net
        THEN [next |-> "throw", finalDoc |-> Undefined,
              error |-> Error(<<"Polling job status failed: ">> \o NetworkError.message)]
    ELSE IF ~ok(resp)
        THEN [next |-> "throw", finalDoc |-> Undefined,
              error |-> Error(<<"Polling job status failed: ", "Polling => HTTP ",
                                ToString(resp.status), " => ", resp.text>>)]
    ELSE IF resp.json = InvalidJson
        THEN [next |-> "throw", finalDoc |-> Undefined,
              error |-> Error(<<"Polling job status failed: ">> \o JsonParseError.message)]
    ELSE IF resp.json = JsonNull
        THEN [next |-> "throw", finalDoc |-> Undefined, error |-> TypeError]
    ELSE IF Has(resp.json, "status") /\ resp.json.status = "error"
        THEN IF cof
             THEN [next |-> "write",
                   finalDoc |-> createPartialResultFromError(resp.json, file, mdl, fileBuffer, t1, t2),
                   error |-> NoError]
             ELSE [next |-> "throw", finalDoc |-> Undefined,
                   error |-> Error(<<"Job error: ", OrElse(resp.json, "error", "undefined")>>)]
    ELSE IF Has(resp.json, "status") /\ resp.json.status = "complete"
        THEN [next |-> "fetch", finalDoc |-> Undefined, error |-> NoError]
    ELSE [next |-> "sleep", finalDoc |-> Undefined, error |-> NoError]

\* fetchOutcome whose catch block rethrows whatever --continue-on-failure
fetchOutcomeCatchRethrows(resp, cof, file, mdl, fileBuffer, t1, t2) ==
    LET caught(err) ==
            [threw |-> TRUE, finalDoc |-> Undefined,
             error |-> Error(<<"Failed to fetch final doc object: ">> \o err.message)]
    IN  IF ~resp.net
            THEN caught(NetworkError)
        ELSE IF ~ok(resp) /\ resp.status # 202
            THEN IF cof
                 THEN [threw |-> FALSE,
                       finalDoc |-> createPartialResultFromHttpError(resp.status, resp.text, file,
                                                                     mdl, fileBuffer, t1, t2),
                       error |-> NoError]
                 ELSE caught(Error(<<"Could not retrieve final => HTTP ", ToString(resp.status),
                                     " => ", resp.text>>))
        ELSE IF resp.status = 202
            THEN IF cof
                 THEN [threw |-> FALSE,
                       finalDoc |-> createPartialResultFromTimeout(file, mdl, fileBuffer, t1, t2),
                       error |-> NoError]
                 ELSE caught(Error(<<"Still processing, got 202.">>))
        ELSE IF resp.json = InvalidJson
            THEN caught(JsonParseError)
        ELSE [threw |-> FALSE, finalDoc |-> resp.json, error |-> NoError]

\* fetchOutcome without the 202 branch: any 2xx body is the result
fetchOutcomeAccepts202(resp, cof, file, mdl, fileBuffer, t1, t2) ==
    LET caught(err) ==
            IF cof
            THEN [threw |-> FALSE,
                  finalDoc |-> createPartialResultFromException(err, file, mdl, fileBuffer, t1, t2),
                  error |-> NoError]
            ELSE [threw |-> TRUE, finalDoc |-> Undefined,
                  error |-> Error(<<"Failed to fetch final doc object: ">> \o err.message)]
    IN  IF ~resp.net
            THEN caught(NetworkError)
        ELSE IF ~ok(resp)
            THEN IF cof
                 THEN [threw |-> FALSE,
                       finalDoc |-> createPartialResultFromHttpError(resp.status, resp.text, file,
                                                                     mdl, fileBuffer, t1, t2),
                       error |-> NoError]
                 ELSE caught(Error(<<"Could not retrieve final => HTTP ", ToString(resp.status),
                                     " => ", resp.text>>))
        ELSE IF resp.json = InvalidJson
            THEN caught(JsonParseError)
        ELSE [threw |-> FALSE, finalDoc |-> resp.json, error |-> NoError]

\* the result fetch: GET .../{jobId}/result, inside try { } catch (err) { }
fetchOutcome(resp, cof, file, mdl, fileBuffer, t1, t2) ==
    LET caught(err) ==
            IF cof
            THEN [threw |-> FALSE,
                  finalDoc |-> createPartialResultFromException(err, file, mdl, fileBuffer, t1, t2),
                  error |-> NoError]
            ELSE [threw |-> TRUE, finalDoc |-> Undefined,
                  error |-> Error(<<"Failed to fetch final doc object: ">> \o err.message)]
    IN  IF ~resp.net
            THEN caught(NetworkError)
        ELSE IF ~ok(resp) /\ resp.status # 202
            THEN IF cof
                 THEN [threw |-> FALSE,
                       finalDoc |-> createPartialResultFromHttpError(resp.status, resp.text, file,
                                                                     mdl, fileBuffer, t1, t2),
                       error |-> NoError]
                 ELSE caught(Error(<<"Could not retrieve final => HTTP ", ToString(resp.status),
                                     " => ", resp.text>>))
        ELSE IF resp.status = 202
            THEN IF cof
                 THEN [threw |-> FALSE,
                       finalDoc |-> createPartialResultFromTimeout(file, mdl, fileBuffer, t1, t2),
                       error |-> NoError]
                 ELSE caught(Error(<<"Still processing, got 202.">>))
        ELSE IF resp.json = InvalidJson
            THEN caught(JsonParseError)
        ELSE [threw |-> FALSE, finalDoc |-> resp.json, error |-> NoError]

\* outputContent stamping metadata.transcription_status on the document it serializes
outputContentStamped(doc, format) ==
    LET stamped ==
            IF Truthy(doc) /\ Has(doc, "metadata")
               /\ ~Has(doc.metadata, "transcription_status")
            THEN [doc EXCEPT !.metadata = SetField(@, "transcription_status", "complete")]
            ELSE doc
    IN  IF format = "md" THEN MarkdownFile(convertDocToMarkdown(stamped)) ELSE JsonFile(stamped)

\* what fs.writeFileSync is given for the output
outputContent(doc, format) ==
    IF format = "md" THEN MarkdownFile(convertDocToMarkdown(doc)) ELSE JsonFile(doc)

\* the write of the output and the return of transcribeSingleFile; writeOk is
\* whether fs.writeFileSync succeeds.  entries: what the action logged before.
writeOutputAndReturn(doc, writeOk, entries) ==
    /\ finalDoc' = doc
    /\ IF writeOk
       THEN /\ fs' = WriteFile(fs, outputPath, outputContent(doc, outputFormat))
            /\ log' = log \o entries
                         \o <<Wrote(outputPath, doc, outputContent(doc, outputFormat))>>
            /\ afterTranscribeSingleFile(FALSE)
       ELSE /\ fs' = fs
            /\ log' = log \o entries
                         \o <<WriteFailed(outputPath, doc, outputContent(doc, outputFormat))>>
            /\ afterTranscribeSingleFile(TRUE)

rejectTranscribe(entries) ==
    /\ log' = log \o entries
    /\ afterTranscribeSingleFile(TRUE)
    /\ UNCHANGED <<fs, finalDoc>>

\* a batch loop that does not await the file it started: the submit request is
\* issued and the loop moves on
TranscribeStartNotAwaited ==
    /\ cmd = "transcribe"
    /\ pc = "start"
    /\ outputPath' = transcribeOutputPath(inputFile, IF batchMode THEN NoPath ELSE outputFlag,
                                           outputFormat)
    /\ jobId' = NoJob
    /\ polls' = 0
    /\ finalDoc' = Undefined
    /\ IF ReadFile(fs, inputFile).kind = "absent"
       THEN /\ log' = << >>
            /\ afterTranscribeSingleFile(TRUE)
            /\ UNCHANGED fs
       ELSE /\ log' = <<Req("submit")>>
            /\ IF batchMode /\ i < Len(batchFileList)
               THEN /\ pc' = "start"
                    /\ i' = i + 1
               ELSE /\ pc' = "wait_submit"
                    /\ i' = i
            /\ UNCHANGED <<fs, exitCode>>
    /\ UNCHANGED <<config, transcript, metaVars, mergeVars, docObj, synVars>>

\* transcribeSingleFile up to its first await: the output path, the read of the
\* input file, the submit request
TranscribeStart ==
    /\ cmd = "transcribe"
    /\ pc = "start"
    /\ outputPath' = transcribeOutputPath(inputFile, IF batchMode THEN NoPath ELSE outputFlag,
                                           outputFormat)
    /\ jobId' = NoJob
    /\ polls' = 0
    /\ finalDoc' = Undefined
    /\ IF ReadFile(fs, inputFile).kind = "absent"
       THEN /\ log' = << >>
            /\ afterTranscribeSingleFile(TRUE)
            /\ UNCHANGED fs
       ELSE /\ log' = <<Req("submit")>>
            /\ pc' = "wait_submit"
            /\ UNCHANGED <<fs, i, exitCode>>
    /\ UNCHANGED <<config, transcript, metaVars, mergeVars, docObj, synVars>>

TranscribeSubmitResponse(resp) ==
    /\ cmd = "transcribe"
    /\ pc = "wait_submit"
    /\ LET out == submitOutcome(resp)
       IN  IF out.threw
           THEN /\ rejectTranscribe(<<Resp("submit", resp)>>)
                /\ UNCHANGED jobId
           ELSE /\ jobId' = out.jobId
                /\ log' = log \o <<Resp("submit", resp), Slept>>
                /\ pc' = "sleeping"
                /\ UNCHANGED <<fs, finalDoc, i, exitCode>>
    /\ UNCHANGED <<config, transcript, metaVars, mergeVars, outputPath, docObj, polls, synVars>>

\* a poll round that leaves an empty document at the output path while the job runs
TranscribeSleepDoneTouchesOutput ==
    /\ cmd = "transcribe"
    /\ pc = "sleeping"
    /\ pc' = "wait_status"
    /\ log' = Append(log, Req("status"))
    /\ fs' = WriteFile(fs, outputPath, JsonFile(EmptyObject))
    /\ UNCHANGED <<config, transcript, metaVars, mergeVars, i, exitCode, outputPath, docObj, jobId, finalDoc, polls, synVars>>

\* the sleep is over: the status request is issued
TranscribeSleepDone ==
    /\ cmd = "transcribe"
    /\ pc = "sleeping"
    /\ pc' = "wait_status"
    /\ log' = Append(log, Req("status"))
    /\ UNCHANGED <<config, transcript, metaVars, mergeVars, fs, i, exitCode, outputPath, docObj, jobId, finalDoc, polls, synVars>>

TranscribeStatusResponse(resp, t1, t2, writeOk) ==
    /\ cmd = "transcribe"
    /\ pc = "wait_status"
    /\ LET out == statusOutcome(resp, continueOnFailure, inputFile, model,
                                ReadFile(fs, inputFile).bytes, t1, t2)
       IN  CASE out.next = "throw" ->
                    /\ rejectTranscribe(<<Resp("status", resp)>>)
                    /\ UNCHANGED polls
             [] out.next = "write" ->
                    /\ writeOutputAndReturn(out.finalDoc, writeOk, <<Resp("status", resp)>>)
                    /\ UNCHANGED polls
             [] out.next = "fetch" ->
                    /\ log' = log \o <<Resp("status", resp), Req("result")>>
                    /\ pc' = "wait_result"
                    /\ UNCHANGED <<fs, finalDoc, i, exitCode, polls>>
             [] out.next = "sleep" ->
                    /\ polls < MaxPolls
                    /\ polls' = polls + 1
                    /\ log' = log \o <<Resp("status", resp), Slept>>
                    /\ pc' = "sleeping"
                    /\ UNCHANGED <<fs, finalDoc, i, exitCode>>
    /\ UNCHANGED <<config, transcript, metaVars, mergeVars, outputPath, docObj, jobId, synVars>>

TranscribeResultResponse(resp, t1, t2, writeOk) ==
    /\ cmd = "transcribe"
    /\ pc = "wait_result"
    /\ LET out == fetchOutcome(resp, continueOnFailure, inputFile, model,
                               ReadFile(fs, inputFile).bytes, t1, t2)
       IN  IF out.threw
           THEN rejectTranscribe(<<Resp("result", resp)>>)
           ELSE writeOutputAndReturn(out.finalDoc, writeOk, <<Resp("result", resp)>>)
    /\ UNCHANGED <<config, transcript, metaVars, mergeVars, outputPath, docObj, jobId, polls, synVars>>

(***************************************************************************)
(* The job client of the three other copies: each ends the process with    *)
(* process.exit(1) where transcribeSingleFile throws.                      *)
(*   exit = TRUE: process.exit(1) was called (or an uncaught TypeError     *)
(*   reached main().catch, which calls it).                                *)
(***************************************************************************)
\* the submit of chunk: POST .../chunkings
chunkSubmitOutcome(resp) ==
    IF ~resp.net THEN [exit |-> TRUE, jobId |-> NoJob]
    ELSE IF ~ok(resp) THEN [exit |-> TRUE, jobId |-> NoJob]
    ELSE IF resp.json = InvalidJson \/ resp.json = JsonNull THEN [exit |-> TRUE, jobId |-> NoJob]
    ELSE IF ~Has(resp.json, "job_id") \/ ~TruthyStr(resp.json.job_id)
        THEN [exit |-> TRUE, jobId |-> NoJob]
    ELSE [exit |-> FALSE, jobId |-> resp.json.job_id]

\* a poll loop of chunk that takes `failed` and `completed` for the end of the job
chunkStatusOutcomeKnowsSynonyms(resp) ==
    IF ~resp.net \/ ~ok(resp) \/ resp.json = InvalidJson \/ resp.json = JsonNull THEN "exit"
    ELSE IF Has(resp.json, "status") /\ resp.json.status \in {"error", "failed"} THEN "exit"
    ELSE IF Has(resp.json, "status") /\ resp.json.status \in {"complete", "completed"} THEN "fetch"
    ELSE "sleep"

\* one round of chunk's poll loop;  next = "exit" | "fetch" | "sleep"
chunkStatusOutcome(resp) ==
    IF ~resp.net THEN "exit"
    ELSE IF ~ok(resp) THEN "exit"
    ELSE IF resp.json = InvalidJson THEN "exit"
    ELSE IF resp.json = JsonNull THEN "exit"
    ELSE IF Has(resp.json, "status") /\ resp.json.status = "error" THEN "exit"
    ELSE IF Has(resp.json, "status") /\ resp.json.status = "complete" THEN "fetch"
    ELSE "sleep"

\* the result fetch of chunk: only a non-2xx status is refused
chunkFetchOutcome(resp) ==
    IF ~resp.net THEN [exit |-> TRUE, finalResult |-> Undefined]
    ELSE IF ~ok(resp) THEN [exit |-> TRUE, finalResult |-> Undefined]
    ELSE IF resp.json = InvalidJson THEN [exit |-> TRUE, finalResult |-> Undefined]
    ELSE [exit |-> FALSE, finalResult |-> resp.json]

\* the submit of summarize: POST .../summaries
summarizeSubmitOutcome(resp) ==
    IF ~resp.net THEN [exit |-> TRUE, jobId |-> NoJob]
    ELSE IF ~ok(resp) THEN [exit |-> TRUE, jobId |-> NoJob]
    ELSE IF resp.json = InvalidJson \/ resp.json = JsonNull THEN [exit |-> TRUE, jobId |-> NoJob]
    ELSE IF ~Has(resp.json, "job_id") \/ ~TruthyStr(resp.json.job_id)
        THEN [exit |-> TRUE, jobId |-> NoJob]
    ELSE [exit |-> FALSE, jobId |-> resp.json.job_id]

summarizeStatusOutcome(resp) ==
    IF ~resp.net THEN "exit"
    ELSE IF ~ok(resp) THEN "exit"
    ELSE IF resp.json = InvalidJson THEN "exit"
    ELSE IF resp.json = JsonNull THEN "exit"
    ELSE IF Has(resp.json, "status") /\ resp.json.status = "error" THEN "exit"
    ELSE IF Has(resp.json, "status") /\ resp.json.status = "complete" THEN "fetch"
    ELSE "sleep"

\* the result fetch of summarize: only a non-2xx status is refused
summarizeFetchOutcome(resp) ==
    IF ~resp.net THEN [exit |-> TRUE, finalDoc |-> Undefined]
    ELSE IF ~ok(resp) THEN [exit |-> TRUE, finalDoc |-> Undefined]
    ELSE IF resp.json = InvalidJson THEN [exit |-> TRUE, finalDoc |-> Undefined]
    ELSE [exit |-> FALSE, finalDoc |-> resp.json]

\* the monolithic script's transcribe (unnamed/part_001)
legacySubmitOutcome(resp) ==
    IF ~resp.net THEN [exit |-> TRUE, jobId |-> NoJob]
    ELSE IF ~ok(resp) THEN [exit |-> TRUE, jobId |-> NoJob]
    ELSE IF resp.json = InvalidJson \/ resp.json = JsonNull THEN [exit |-> TRUE, jobId |-> NoJob]
    ELSE IF ~Has(resp.json, "job_id") \/ ~TruthyStr(resp.json.job_id)
        THEN [exit |-> TRUE, jobId |-> NoJob]
    ELSE [exit |-> FALSE, jobId |-> resp.json.job_id]

legacyStatusOutcome(resp) ==
    IF ~resp.net THEN "exit"
    ELSE IF ~ok(resp) THEN "exit"
    ELSE IF resp.json = InvalidJson THEN "exit"
    ELSE IF resp.json = JsonNull THEN "exit"
    ELSE IF Has(resp.json, "status") /\ resp.json.status = "error" THEN "exit"
    ELSE IF Has(resp.json, "status") /\ resp.json.status = "complete" THEN "fetch"
    ELSE "sleep"

legacyFetchOutcome(resp) ==
    IF ~resp.net THEN [exit |-> TRUE, finalDoc |-> Undefined]
    ELSE IF ~ok(resp) /\ resp.status # 202 THEN [exit |-> TRUE, finalDoc |-> Undefined]
    ELSE IF resp.status = 202 THEN [exit |-> TRUE, finalDoc |-> Undefined]
    ELSE IF resp.json = InvalidJson THEN [exit |-> TRUE, finalDoc |-> Undefined]
    ELSE [exit |-> FALSE, finalDoc |-> resp.json]

(***************************************************************************)
(* chunk (commandChunk): the document it writes                            *)
(***************************************************************************)
outputChunkGroupName == "rechunked"

chunkOutputPath(inputPath, flag, inl) ==
    IF flag # NoPath THEN flag
    ELSE IF inl THEN inputPath
    ELSE ReplaceSuffix(inputPath, <<"json">>, << >>) \o <<"chunk", "json">>

\* the item => chunk mapping; an item without chunk_data raises a TypeError
chunkItemOk(item) == Has(item, "chunk_data")

\* a mapping that numbers every chunk 0
newChunkConstantIndex(doc, item, idx) ==
    LET base == IF Has(item, "chunk_index")
                THEN [chunk_index |-> item.chunk_index] ELSE EmptyObject
        titled == IF Has(item.chunk_data, "title")
                  THEN SetField(base, "title", item.chunk_data.title) ELSE base
        core == [ id |-> <<doc.id, "/", outputChunkGroupName, "@", "0">>,
                  parent |-> doc.id,
                  metadata |-> titled ]
    IN  IF Has(item.chunk_data, "body") THEN SetField(core, "content", item.chunk_data.body)
        ELSE core

newChunk(doc, item, idx) ==
    LET base == IF Has(item, "chunk_index")
                THEN [chunk_index |-> item.chunk_index] ELSE EmptyObject
        titled == IF Has(item.chunk_data, "title")
                  THEN SetField(base, "title", item.chunk_data.title) ELSE base
        childMetadata ==
            IF Has(doc, "metadata") /\ Has(doc.metadata, "originating_filename")
               /\ doc.metadata.originating_filename # << >>
            THEN SetField(titled, "originating_filename", doc.metadata.originating_filename)
            ELSE titled
        core == [ id |-> <<doc.id, "/", outputChunkGroupName, "@", ToString(idx)>>,
                  parent |-> doc.id,
                  metadata |-> childMetadata ]
    IN  IF Has(item.chunk_data, "body") THEN SetField(core, "content", item.chunk_data.body)
        ELSE core

\* an inline mode that rebuilds `chunks` with the new group alone
chunkDocumentInlineDropsGroups(doc, finalResult, inl) ==
    IF finalResult = JsonNull THEN [threw |-> TRUE, doc |-> Undefined]
    ELSE LET items == IF Has(finalResult, "chunks") THEN finalResult.chunks ELSE << >>
         IN  IF \E k \in 1..Len(items) : ~chunkItemOk(items[k])
             THEN [threw |-> TRUE, doc |-> Undefined]
             ELSE [threw |-> FALSE,
                   doc |-> SetField(doc, "chunks",
                              SetField(EmptyObject, outputChunkGroupName,
                                       [k \in 1..Len(items) |-> newChunk(doc, items[k], k - 1)]))]

\* threw: a TypeError left commandChunk;  doc: what JSON.stringify is given
chunkDocument(doc, finalResult, inl) ==
    IF finalResult = JsonNull THEN [threw |-> TRUE, doc |-> Undefined]
    ELSE LET items == IF Has(finalResult, "chunks") THEN finalResult.chunks ELSE << >>
         IN  IF \E k \in 1..Len(items) : ~chunkItemOk(items[k])
             THEN [threw |-> TRUE, doc |-> Undefined]
             ELSE LET newChunkArray == [k \in 1..Len(items) |-> newChunk(doc, items[k], k - 1)]
                  IN  IF inl
                      THEN [threw |-> FALSE,
                            doc |-> SetField(doc, "chunks",
                                       SetField(IF Has(doc, "chunks") THEN doc.chunks ELSE EmptyObject,
                                                outputChunkGroupName, newChunkArray))]
                      ELSE [threw |-> FALSE,
                            doc |-> [ id |-> doc.id,
                                      content |-> IF Has(doc, "content") THEN doc.content ELSE << >>,
                                      metadata |-> IF Has(doc, "metadata") THEN doc.metadata
                                                   ELSE EmptyObject,
                                      chunks |-> SetField(EmptyObject, outputChunkGroupName,
                                                          newChunkArray) ]]

ChunkItem(n) ==
    [ chunk_index |-> n,
      chunk_data |-> [title |-> "part", body |-> <<"chunk text">>] ]

ChunkingResults ==
    { [chunks |-> <<ChunkItem(0), ChunkItem(1)>>],
      [chunks |-> << [chunk_index |-> 0] >>],
      [status |-> "processing"],
      JsonNull }

ChunkingResultResponses ==
    { NetErr,
      Http(500, "Internal Server Error", InvalidJson),
      Http(202, "Accepted", InvalidJson),
      Http(202, "", [status |-> "processing"]),
      Http(200, "<html>", InvalidJson) }
    \cup { Http(200, "", r) : r \in ChunkingResults }

SummaryResults == { GoodDoc, [status |-> "processing"], JsonNull }

SummaryResultResponses ==
    { NetErr,
      Http(500, "Internal Server Error", InvalidJson),
      Http(202, "Accepted", InvalidJson),
      Http(202, "", [status |-> "processing"]),
      Http(200, "<html>", InvalidJson) }
    \cup { Http(200, "", r) : r \in SummaryResults }

summarizeTargetPath(inputPath, flag, inl) ==
    LET outputFile ==
            IF ~inl /\ flag = NoPath
            THEN ReplaceSuffix(inputPath, <<"doc", "json">>, << >>) \o <<"summarized", "doc", "json">>
            ELSE flag
    IN  IF outputFile # NoPath THEN outputFile ELSE inputPath

legacyOutputPath(pdfPath, flag) ==
    IF flag # NoPath THEN flag ELSE ReplaceSuffix(pdfPath, <<"pdf">>, <<"doc", "json">>)

(***************************************************************************)
(* chunk, summarize and the monolithic transcribe: the actions             *)
(***************************************************************************)
\* process.exit(code) after the entries were logged
exitWith(code, entries) ==
    /\ log' = log \o entries
    /\ Exit(code)

\* fs.writeFileSync(path, JSON.stringify(doc, null, 2)) and the end of the command
writeJsonAndExit(path, doc, writeOk, entries) ==
    IF writeOk
    THEN /\ fs' = WriteFile(fs, path, JsonFile(doc))
         /\ exitWith(0, entries \o <<Wrote(path, doc, JsonFile(doc))>>)
    ELSE /\ fs' = fs
         /\ exitWith(1, entries \o <<WriteFailed(path, doc, JsonFile(doc))>>)

ChunkStart ==
    /\ cmd = "chunk"
    /\ pc = "start"
    /\ outputPath' = chunkOutputPath(inputFile, outputFlag, inline)
    /\ IF ReadFile(fs, inputFile).kind # "json"
       THEN /\ exitWith(1, << >>)
            /\ UNCHANGED docObj
       ELSE /\ docObj' = ReadFile(fs, inputFile).json
            /\ log' = Append(log, Req("submit"))
            /\ pc' = "wait_submit"
            /\ UNCHANGED <<i, exitCode>>
    /\ UNCHANGED <<config, transcript, metaVars, mergeVars, fs, jobId, finalDoc, polls, synVars>>

ChunkSubmitResponse(resp) ==
    /\ cmd = "chunk"
    /\ pc = "wait_submit"
    /\ LET out == chunkSubmitOutcome(resp)
       IN  IF out.exit
           THEN /\ exitWith(1, <<Resp("submit", resp)>>)
                /\ UNCHANGED jobId
           ELSE /\ jobId' = out.jobId
                /\ log' = log \o <<Resp("submit", resp), Slept>>
                /\ pc' = "sleeping"
                /\ UNCHANGED <<i, exitCode>>
    /\ UNCHANGED <<config, transcript, metaVars, mergeVars, fs, outputPath, docObj, finalDoc, polls, synVars>>

ChunkSleepDone ==
    /\ cmd = "chunk"
    /\ pc = "sleeping"
    /\ pc' = "wait_status"
    /\ log' = Append(log, Req("status"))
    /\ UNCHANGED <<config, transcript, metaVars, mergeVars, fs, i, exitCode, outputPath, docObj, jobId, finalDoc, polls, synVars>>

ChunkStatusResponse(resp) ==
    /\ cmd = "chunk"
    /\ pc = "wait_status"
    /\ LET next == chunkStatusOutcome(resp)
       IN  CASE next = "exit" ->
                    /\ exitWith(1, <<Resp("status", resp)>>)
                    /\ UNCHANGED polls
             [] next = "fetch" ->
                    /\ log' = log \o <<Resp("status", resp), Req("result")>>
                    /\ pc' = "wait_result"
                    /\ UNCHANGED <<i, exitCode, polls>>
             [] next = "sleep" ->
                    /\ polls < MaxPolls
                    /\ polls' = polls + 1
                    /\ log' = log \o <<Resp("status", resp), Slept>>
                    /\ pc' = "sleeping"
                    /\ UNCHANGED <<i, exitCode>>
    /\ UNCHANGED <<config, transcript, metaVars, mergeVars, fs, outputPath, docObj, jobId, finalDoc, synVars>>

ChunkResultResponse(resp, writeOk) ==
    /\ cmd = "chunk"
    /\ pc = "wait_result"
    /\ LET out == chunkFetchOutcome(resp)
       IN  IF out.exit
           THEN /\ exitWith(1, <<Resp("result", resp)>>)
                /\ UNCHANGED <<fs, finalDoc>>
           ELSE LET built == chunkDocument(docObj, out.finalResult, inline)
                IN  IF built.threw
                    THEN /\ exitWith(1, <<Resp("result", resp)>>)
                         /\ UNCHANGED <<fs, finalDoc>>
                    ELSE /\ finalDoc' = built.doc
                         /\ writeJsonAndExit(outputPath, built.doc, writeOk, <<Resp("result", resp)>>)
    /\ UNCHANGED <<config, transcript, metaVars, mergeVars, outputPath, docObj, jobId, polls, synVars>>

SummarizeStart ==
    /\ cmd = "summarize"
    /\ pc = "start"
    /\ outputPath' = summarizeTargetPath(inputFile, outputFlag, inline)
    /\ IF ReadFile(fs, inputFile).kind # "json"
       THEN /\ exitWith(1, << >>)
            /\ UNCHANGED docObj
       ELSE /\ docObj' = ReadFile(fs, inputFile).json
            /\ log' = Append(log, Req("submit"))
            /\ pc' = "wait_submit"
            /\ UNCHANGED <<i, exitCode>>
    /\ UNCHANGED <<config, transcript, metaVars, mergeVars, fs, jobId, finalDoc, polls, synVars>>

SummarizeSubmitResponse(resp) ==
    /\ cmd = "summarize"
    /\ pc = "wait_submit"
    /\ LET out == summarizeSubmitOutcome(resp)
       IN  IF out.exit
           THEN /\ exitWith(1, <<Resp("submit", resp)>>)
                /\ UNCHANGED jobId
           ELSE /\ jobId' = out.jobId
                /\ log' = log \o <<Resp("submit", resp), Slept>>
                /\ pc' = "sleeping"
                /\ UNCHANGED <<i, exitCode>>
    /\ UNCHANGED <<config, transcript, metaVars, mergeVars, fs, outputPath, docObj, finalDoc, polls, synVars>>

SummarizeSleepDone ==
    /\ cmd = "summarize"
    /\ pc = "sleeping"
    /\ pc' = "wait_status"
    /\ log' = Append(log, Req("status"))
    /\ UNCHANGED <<config, transcript, metaVars, mergeVars, fs, i, exitCode, outputPath, docObj, jobId, finalDoc, polls, synVars>>

SummarizeStatusResponse(resp) ==
    /\ cmd = "summarize"
    /\ pc = "wait_status"
    /\ LET next == summarizeStatusOutcome(resp)
       IN  CASE next = "exit" ->
                    /\ exitWith(1, <<Resp("status", resp)>>)
                    /\ UNCHANGED polls
             [] next = "fetch" ->
                    /\ log' = log \o <<Resp("status", resp), Req("result")>>
                    /\ pc' = "wait_result"
                    /\ UNCHANGED <<i, exitCode, polls>>
             [] next = "sleep" ->
                    /\ polls < MaxPolls
                    /\ polls' = polls + 1
                    /\ log' = log \o <<Resp("status", resp), Slept>>
                    /\ pc' = "sleeping"
                    /\ UNCHANGED <<i, exitCode>>
    /\ UNCHANGED <<config, transcript, metaVars, mergeVars, fs, outputPath, docObj, jobId, finalDoc, synVars>>

SummarizeResultResponse(resp, writeOk) ==
    /\ cmd = "summarize"
    /\ pc = "wait_result"
    /\ LET out == summarizeFetchOutcome(resp)
       IN  IF out.exit
           THEN /\ exitWith(1, <<Resp("result", resp)>>)
                /\ UNCHANGED <<fs, finalDoc>>
           ELSE /\ finalDoc' = out.finalDoc
                /\ writeJsonAndExit(outputPath, out.finalDoc, writeOk, <<Resp("result", resp)>>)
    /\ UNCHANGED <<config, transcript, metaVars, mergeVars, outputPath, docObj, jobId, polls, synVars>>

LegacyStart ==
    /\ cmd = "transcribe-monolith"
    /\ pc = "start"
    /\ outputPath' = legacyOutputPath(inputFile, outputFlag)
    /\ IF extname(inputFile) # "pdf" \/ ReadFile(fs, inputFile).kind = "absent"
       THEN exitWith(1, << >>)
       ELSE /\ log' = Append(log, Req("submit"))
            /\ pc' = "wait_submit"
            /\ UNCHANGED <<i, exitCode>>
    /\ UNCHANGED <<config, transcript, metaVars, mergeVars, fs, docObj, jobId, finalDoc, polls, synVars>>

LegacySubmitResponse(resp) ==
    /\ cmd = "transcribe-monolith"
    /\ pc = "wait_submit"
    /\ LET out == legacySubmitOutcome(resp)
       IN  IF out.exit
           THEN /\ exitWith(1, <<Resp("submit", resp)>>)
                /\ UNCHANGED jobId
           ELSE /\ jobId' = out.jobId
                /\ log' = log \o <<Resp("submit", resp), Slept>>
                /\ pc' = "sleeping"
                /\ UNCHANGED <<i, exitCode>>
    /\ UNCHANGED <<config, transcript, metaVars, mergeVars, fs, outputPath, docObj, finalDoc, polls, synVars>>

LegacySleepDone ==
    /\ cmd = "transcribe-monolith"
    /\ pc = "sleeping"
    /\ pc' = "wait_status"
    /\ log' = Append(log, Req("status"))
    /\ UNCHANGED <<config, transcript, metaVars, mergeVars, fs, i, exitCode, outputPath, docObj, jobId, finalDoc, polls, synVars>>

LegacyStatusResponse(resp) ==
    /\ cmd = "transcribe-monolith"
    /\ pc = "wait_status"
    /\ LET next == legacyStatusOutcome(resp)
       IN  CASE next = "exit" ->
                    /\ exitWith(1, <<Resp("status", resp)>>)
                    /\ UNCHANGED polls
             [] next = "fetch" ->
                    /\ log' = log \o <<Resp("status", resp), Req("result")>>
                    /\ pc' = "wait_result"
                    /\ UNCHANGED <<i, exitCode, polls>>
             [] next = "sleep" ->
                    /\ polls < MaxPolls
                    /\ polls' = polls + 1
                    /\ log' = log \o <<Resp("status", resp), Slept>>
                    /\ pc' = "sleeping"
                    /\ UNCHANGED <<i, exitCode>>
    /\ UNCHANGED <<config, transcript, metaVars, mergeVars, fs, outputPath, docObj, jobId, finalDoc, synVars>>

LegacyResultResponse(resp, writeOk) ==
    /\ cmd = "transcribe-monolith"
    /\ pc = "wait_result"
    /\ LET out == legacyFetchOutcome(resp)
       IN  IF out.exit
           THEN /\ exitWith(1, <<Resp("result", resp)>>)
                /\ UNCHANGED <<fs, finalDoc>>
           ELSE /\ finalDoc' = out.finalDoc
                /\ writeJsonAndExit(outputPath, out.finalDoc, writeOk, <<Resp("result", resp)>>)
    /\ UNCHANGED <<config, transcript, metaVars, mergeVars, outputPath, docObj, jobId, polls, synVars>>

(***************************************************************************)
(* merge-transcriptions (commandMergeTranscriptions).  Metadata values of  *)
(* the documents merged are numbers, and no metadata key of a source ends  *)
(* in `_conflicts`.                                                        *)
(***************************************************************************)
inputPaths == batchFileList

DefaultMergeOutput == <<"merged", "doc", "json">>

\* d.chunks?.[chunkGroupName] || []
chunkArray(d, g) == IF Has(d, "chunks") /\ Has(d.chunks, g) THEN d.chunks[g] ELSE << >>

chunkArrays(ds, g) == [n \in 1..Len(ds) |-> chunkArray(ds[n], g)]

pageCount(ds, g) == Len(chunkArrays(ds, g)[1])

\* a comparison that stops after the second document
alignedSecondOnly(arrays) == Len(arrays) < 2 \/ Len(arrays[2]) = Len(arrays[1])

\* an alignment check that also refuses documents without any chunk in the group
alignedNonEmpty(arrays) ==
    /\ Len(arrays[1]) > 0
    /\ \A n \in 2..Len(arrays) : Len(arrays[n]) = Len(arrays[1])

\* the loop that compares every chunk array's length with the first one's
aligned(arrays) == \A n \in 2..Len(arrays) : Len(arrays[n]) = Len(arrays[1])

\* holder.metadata ? holder.metadata[k] : undefined
metadataValue(holder, k) ==
    IF Has(holder, "metadata") /\ Has(holder.metadata, k)
    THEN [defined |-> TRUE, value |-> holder.metadata[k]]
    ELSE [defined |-> FALSE, value |-> 0]

\* JSON.stringify(x) inside a template string
stringify(x) == IF x.defined THEN ToString(x.value) ELSE "undefined"

\* k + '_conflicts'
conflictsKey(k) ==
    CASE k = "page_number" -> "page_number_conflicts"
      [] k = "revision" -> "revision_conflicts"

\* values.slice(1).filter(x => JSON.stringify(x) !== JSON.stringify(values[0]))
RECURSIVE altValues(_, _)
altValues(values, n) ==
    IF n > Len(values) THEN << >>
    ELSE (IF values[n] # values[1] THEN <<values[n]>> ELSE << >>) \o altValues(values, n + 1)

\* .map(x => `ALT: ${JSON.stringify(x)}`).join(' | ')
RECURSIVE joinAlt(_)
joinAlt(alts) ==
    IF alts = << >> THEN << >>
    ELSE IF Len(alts) = 1 THEN <<"ALT: ", stringify(alts[1])>>
    ELSE <<"ALT: ", stringify(alts[1]), " | ">> \o joinAlt(Tail(alts))

altList(values) == joinAlt(altValues(values, 2))

\* the keys of all holders' metadata
metadataKeys(holders) ==
    UNION { DOMAIN holders[n].metadata : n \in {m \in 1..Len(holders) : Has(holders[m], "metadata")} }

\* a merge in which the last document's value wins
mergeDocMetadataKeepsLast(ds) ==
    LET allDocKeys == metadataKeys(ds)
        values(k) == [n \in 1..Len(ds) |-> metadataValue(ds[n], k)]
        allSame(k) == \A n \in 1..Len(ds) : values(k)[n] = values(k)[1]
        kept == {k \in allDocKeys : values(k)[Len(ds)].defined}
        tagged == {k \in allDocKeys : ~allSame(k) /\ altList(values(k)) # << >>}
    IN  [f \in kept \cup {conflictsKey(k) : k \in tagged} |->
            IF f \in kept THEN values(f)[Len(ds)].value
            ELSE altList(values(CHOOSE k \in tagged : conflictsKey(k) = f))]

\* doc-level metadata; a key set to undefined is not in the JSON written
mergeDocMetadata(ds) ==
    LET allDocKeys == metadataKeys(ds)
        values(k) == [n \in 1..Len(ds) |-> metadataValue(ds[n], k)]
        allSame(k) == \A n \in 1..Len(ds) : values(k)[n] = values(k)[1]
        kept == {k \in allDocKeys : values(k)[1].defined}
        tagged == {k \in allDocKeys : ~allSame(k) /\ altList(values(k)) # << >>}
    IN  [f \in kept \cup {conflictsKey(k) : k \in tagged} |->
            IF f \in kept THEN values(f)[1].value
            ELSE altList(values(CHOOSE k \in tagged : conflictsKey(k) = f))]

\* a merge that writes the conflicts key whether or not the values agree
mergePageMetadataAlwaysTags(pageChunks) ==
    LET pageKeys == metadataKeys(pageChunks)
        vals(k) == [n \in 1..Len(pageChunks) |-> metadataValue(pageChunks[n], k)]
        kept == {k \in pageKeys : vals(k)[1].defined}
    IN  [f \in kept \cup {conflictsKey(k) : k \in pageKeys} |->
            IF f \in kept THEN vals(f)[1].value
            ELSE altList(vals(CHOOSE k \in pageKeys : conflictsKey(k) = f))]

\* page-level metadata: the same code, over the page's chunks
mergePageMetadata(pageChunks) ==
    LET pageKeys == metadataKeys(pageChunks)
        vals(k) == [n \in 1..Len(pageChunks) |-> metadataValue(pageChunks[n], k)]
        allSame(k) == \A n \in 1..Len(pageChunks) : vals(k)[n] = vals(k)[1]
        kept == {k \in pageKeys : vals(k)[1].defined}
        tagged == {k \in pageKeys : ~allSame(k) /\ altList(vals(k)) # << >>}
    IN  [f \in kept \cup {conflictsKey(k) : k \in tagged} |->
            IF f \in kept THEN vals(f)[1].value
            ELSE altList(vals(CHOOSE k \in tagged : conflictsKey(k) = f))]

\* a skeleton that always names the default chunk group
mergedDocSkeletonDefaultGroup(baseDoc, mergedMetadata, g) ==
    [ id |-> <<"merged-", IF Has(baseDoc, "id") /\ TruthyStr(baseDoc.id) THEN baseDoc.id ELSE "doc">>,
      metadata |-> mergedMetadata,
      content_chunk_group |-> "pages",
      chunks |-> SetField(EmptyObject, g, << >>) ]

\* a skeleton whose id ignores the first document
mergedDocSkeletonFixedId(baseDoc, mergedMetadata, g) ==
    [ id |-> <<"merged-", "doc">>,
      metadata |-> mergedMetadata,
      content_chunk_group |-> g,
      chunks |-> SetField(EmptyObject, g, << >>) ]

\* the merged doc skeleton
mergedDocSkeleton(baseDoc, mergedMetadata, g) ==
    [ id |-> <<"merged-", IF Has(baseDoc, "id") /\ TruthyStr(baseDoc.id) THEN baseDoc.id ELSE "doc">>,
      metadata |-> mergedMetadata,
      content_chunk_group |-> g,
      chunks |-> SetField(EmptyObject, g, << >>) ]

\* docs.map(d => d.chunks[chunkGroupName][pageIndex]); reading a page a document
\* does not have raises a TypeError
pageChunksOk(ds, g, idx) == \A n \in 1..Len(ds) : Len(chunkArray(ds[n], g)) > idx

pageChunksAt(ds, g, idx) == [n \in 1..Len(ds) |-> chunkArray(ds[n], g)[idx + 1]]

RECURSIVE userContentFrom(_, _)
userContentFrom(pageChunks, n) ==
    IF n > Len(pageChunks) THEN << >>
    ELSE <<"TRANSCRIPTION #", ToString(n), ":">>
         \o (IF Has(pageChunks[n], "content") THEN pageChunks[n].content ELSE <<"undefined">>)
         \o userContentFrom(pageChunks, n + 1)

userContent(pageChunks) == userContentFrom(pageChunks, 1)

\* assistantMsgs.map(m => m.content).join('\n')
RECURSIVE joinLines(_)
joinLines(msgs) ==
    IF msgs = << >> THEN << >>
    ELSE IF Len(msgs) = 1 THEN msgs[1].content
    ELSE msgs[1].content \o <<"\n">> \o joinLines(Tail(msgs))

\* an answer taken as it comes, without the check for an assistant message
mergePageOutcomeNoAssistantCheck(resp) ==
    IF ~resp.net THEN [exit |-> TRUE, mergedPageMarkdown |-> << >>]
    ELSE IF ~ok(resp) THEN [exit |-> TRUE, mergedPageMarkdown |-> << >>]
    ELSE IF resp.json = InvalidJson \/ resp.json = JsonNull
        THEN [exit |-> TRUE, mergedPageMarkdown |-> << >>]
    ELSE LET messages == IF Has(resp.json, "messages") THEN resp.json.messages ELSE << >>
             assistantMsgs == SelectSeq(messages, LAMBDA m : m.role = "assistant")
         IN  [exit |-> FALSE, mergedPageMarkdown |-> joinLines(assistantMsgs)]

\* the answer of POST .../transcript/extension for one page
mergePageOutcome(resp) ==
    IF ~resp.net THEN [exit |-> TRUE, mergedPageMarkdown |-> << >>]
    ELSE IF ~ok(resp) THEN [exit |-> TRUE, mergedPageMarkdown |-> << >>]
    ELSE IF resp.json = InvalidJson \/ resp.json = JsonNull
        THEN [exit |-> TRUE, mergedPageMarkdown |-> << >>]
    ELSE LET messages == IF Has(resp.json, "messages") THEN resp.json.messages ELSE << >>
             assistantMsgs == SelectSeq(messages, LAMBDA m : m.role = "assistant")
         IN  IF assistantMsgs = << >>
             THEN [exit |-> TRUE, mergedPageMarkdown |-> << >>]
             ELSE [exit |-> FALSE, mergedPageMarkdown |-> joinLines(assistantMsgs)]

newPageChunk(merged, g, idx, mergedPageMarkdown, mergedPageMetadata) ==
    [ id |-> merged.id \o <<"/", g, "@", ToString(idx)>>,
      parent |-> merged.id,
      content |-> mergedPageMarkdown,
      metadata |-> mergedPageMetadata ]

\* a loop that does not advance
nextPageIndexStuck(idx) == idx

\* pageIndex++
nextPageIndex(idx) == idx + 1

\* log entries of the page loop
MergeReq(idx, content) ==
    [file |-> i, dir |-> "req", ev |-> "merge", resp |-> NoResp, secs |-> 0,
     path |-> NoPath, doc |-> Undefined, content |-> Absent,
     page |-> idx, userContent |-> content]
MergeResp(idx, r) ==
    [file |-> i, dir |-> "resp", ev |-> "merge", resp |-> r, secs |-> 0,
     path |-> NoPath, doc |-> Undefined, content |-> Absent,
     page |-> idx, userContent |-> << >>]

AssistantMsg(c) == [role |-> "assistant", content |-> c]
UserMsg(c) == [role |-> "user", content |-> c]

MergeResponses ==
    { NetErr,
      Http(500, "Internal Server Error", InvalidJson),
      Http(200, "<html>", InvalidJson),
      Http(200, "", [id |-> "transcript"]),
      Http(200, "", [messages |-> <<UserMsg(<<"prompt">>)>>]),
      Http(200, "", [messages |-> <<UserMsg(<<"prompt">>), AssistantMsg(<<"merged text">>)>>]),
      Http(200, "", [messages |-> <<AssistantMsg(<<"part 1">>), AssistantMsg(<<"part 2">>)>>]) }

\* the top of the page loop for page idx: the request is issued, or the loop is
\* over and the merged document is written
pageLoop(merged, idx, writeOk, entries) ==
    IF idx < pageCount(docs', chunkGroupName)
    THEN IF pageChunksOk(docs', chunkGroupName, idx)
         THEN /\ pageIndex' = idx
              /\ log' = log \o entries
                            \o <<MergeReq(idx, userContent(pageChunksAt(docs', chunkGroupName, idx)))>>
              /\ pc' = "wait_merge"
              /\ UNCHANGED <<fs, i, exitCode>>
         ELSE /\ pageIndex' = idx
              /\ fs' = fs
              /\ exitWith(1, entries)
    ELSE /\ pageIndex' = idx
         /\ writeJsonAndExit(outputPath', merged, writeOk, entries)

\* commandMergeTranscriptions up to its first await
MergeStart(writeOk) ==
    /\ cmd = "merge-transcriptions"
    /\ pc = "start"
    /\ outputPath' = IF outputFlag # NoPath THEN outputFlag ELSE DefaultMergeOutput
    /\ IF Len(inputPaths) < 2
       THEN /\ exitWith(1, << >>)
            /\ UNCHANGED <<fs, mergeVars>>
       ELSE IF \E n \in 1..Len(inputPaths) : ReadFile(fs, inputPaths[n]).kind # "json"
       THEN /\ exitWith(1, << >>)
            /\ UNCHANGED <<fs, mergeVars>>
       ELSE /\ docs' = [n \in 1..Len(inputPaths) |-> ReadFile(fs, inputPaths[n]).json]
            /\ IF ~aligned(chunkArrays(docs', chunkGroupName))
               THEN /\ exitWith(1, << >>)
                    /\ UNCHANGED <<fs, pageIndex, mergedDoc>>
               ELSE /\ mergedDoc' = mergedDocSkeleton(docs'[1], mergeDocMetadata(docs'), chunkGroupName)
                    /\ pageLoop(mergedDoc', 0, writeOk, << >>)
    /\ UNCHANGED <<config, transcript, metaVars, synVars, docObj, jobId, finalDoc, polls>>

\* a page loop that asks again when a page's answer is not usable
MergePageResponseRetries(resp, writeOk) ==
    /\ cmd = "merge-transcriptions"
    /\ pc = "wait_merge"
    /\ docs' = docs
    /\ outputPath' = outputPath
    /\ LET out == mergePageOutcome(resp)
           pageChunks == pageChunksAt(docs, chunkGroupName, pageIndex)
       IN  IF out.exit
           THEN /\ mergedDoc' = mergedDoc
                /\ pageLoop(mergedDoc, pageIndex, writeOk, <<MergeResp(pageIndex, resp)>>)
           ELSE /\ mergedDoc' =
                       [mergedDoc EXCEPT !.chunks[chunkGroupName] =
                           Append(@, newPageChunk(mergedDoc, chunkGroupName, pageIndex,
                                                  out.mergedPageMarkdown,
                                                  mergePageMetadata(pageChunks)))]
                /\ pageLoop(mergedDoc', nextPageIndex(pageIndex), writeOk,
                            <<MergeResp(pageIndex, resp)>>)
    /\ UNCHANGED <<config, transcript, metaVars, synVars, docObj, jobId, finalDoc, polls>>

\* the answer for page pageIndex, the page's chunk, and the next round of the loop
MergePageResponse(resp, writeOk) ==
    /\ cmd = "merge-transcriptions"
    /\ pc = "wait_merge"
    /\ docs' = docs
    /\ outputPath' = outputPath
    /\ LET out == mergePageOutcome(resp)
           pageChunks == pageChunksAt(docs, chunkGroupName, pageIndex)
       IN  IF out.exit
           THEN /\ exitWith(1, <<MergeResp(pageIndex, resp)>>)
                /\ UNCHANGED <<fs, pageIndex, mergedDoc>>
           ELSE /\ mergedDoc' =
                       [mergedDoc EXCEPT !.chunks[chunkGroupName] =
                           Append(@, newPageChunk(mergedDoc, chunkGroupName, pageIndex,
                                                  out.mergedPageMarkdown,
                                                  mergePageMetadata(pageChunks)))]
                /\ pageLoop(mergedDoc', nextPageIndex(pageIndex), writeOk,
                            <<MergeResp(pageIndex, resp)>>)
    /\ UNCHANGED <<config, transcript, metaVars, synVars, docObj, jobId, finalDoc, polls>>

(***************************************************************************)
(* convert-server-config (commandConvertServerConfig).  An answer typed at *)
(* the prompt is a sequence of characters.                                 *)
(***************************************************************************)
serverConfigPath == batchFileList[1]

\* path.join(os.homedir(), '.config', 'charm', 'config.json')
localPath == <<"~", ".config", "charm", "config", "json">>

\* String.prototype.trim
RECURSIVE trim(_)
trim(chars) ==
    IF chars = << >> THEN << >>
    ELSE IF Head(chars) \in {" ", "\t", "\n"} THEN trim(Tail(chars))
    ELSE IF chars[Len(chars)] \in {" ", "\t", "\n"} THEN trim(SubSeq(chars, 1, Len(chars) - 1))
    ELSE chars

\* String.prototype.toLowerCase, on the letters that occur
toLowerCase(chars) ==
    [n \in 1..Len(chars) |->
        CASE chars[n] = "Y" -> "y" [] chars[n] = "N" -> "n" [] chars[n] = "E" -> "e"
          [] chars[n] = "S" -> "s" [] chars[n] = "X" -> "x" [] chars[n] = "I" -> "i"
          [] chars[n] = "T" -> "t" [] chars[n] = "Q" -> "q" [] chars[n] = "U" -> "u"
          [] OTHER -> chars[n]]

\* a prompt that compares the answer as it was typed, lower-cased
promptYesNoUntrimmed(answer) == toLowerCase(answer)

\* what promptYesNo resolves to when `answer` is typed
promptYesNo(answer) == toLowerCase(trim(answer))

\* rawBaseUrl.replace(/^\/+/, '')
RECURSIVE stripLeadingSlashes(_)
stripLeadingSlashes(url) ==
    IF url # << >> /\ Head(url) = "/" THEN stripLeadingSlashes(Tail(url)) ELSE url

\* the local config built from the server's; models: the keys of serverConf.models
localConfOf(serverConf) ==
    [ port |-> IF Has(serverConf, "server") /\ Has(serverConf.server, "port")
               THEN serverConf.server.port ELSE 5002,
      hostname |-> "localhost",
      baseUrlPrefix |-> stripLeadingSlashes(
                            IF Has(serverConf, "server") /\ Has(serverConf.server, "baseUrl")
                               /\ serverConf.server.baseUrl # << >>
                            THEN serverConf.server.baseUrl ELSE <<"/", "ai2">>),
      model |-> IF Has(serverConf, "models") /\ serverConf.models # << >>
                THEN serverConf.models[1] ELSE "gpt-4o-mini" ]

\* charm.mjs: the defaults, and { ...defaultConfig, ...userConfig }
defaultConfig ==
    [port |-> 5002, hostname |-> "localhost", baseUrlPrefix |-> <<"/", "charm">>,
     model |-> "gpt-4o-mini"]

mergedConfig(userConfig) ==
    [k \in DOMAIN defaultConfig \cup DOMAIN userConfig |->
        IF k \in DOMAIN userConfig THEN userConfig[k] ELSE defaultConfig[k]]

\* `http://${hostname}:${port}${baseUrlPrefix}/api/charmonizer/v1/conversions/documents`,
\* piece by piece
endpoint(globalFlags) ==
    <<"http://", globalFlags.hostname, ":", globalFlags.port>>
        \o globalFlags.baseUrlPrefix
        \o <<"/", "api", "/", "charmonizer", "/", "v1", "/", "conversions", "/", "documents">>

\* the question put to the user, and the line read back
Asked ==
    [file |-> i, dir |-> "req", ev |-> "prompt", resp |-> NoResp, secs |-> 0,
     path |-> NoPath, doc |-> Undefined, content |-> Absent, answer |-> << >>]
Answered(answer) ==
    [file |-> i, dir |-> "resp", ev |-> "prompt", resp |-> NoResp, secs |-> 0,
     path |-> NoPath, doc |-> Undefined, content |-> Absent, answer |-> answer]

\* commandConvertServerConfig up to the prompt, or to its end when nothing is asked
ConfigStart(writeOk) ==
    /\ cmd = "convert-server-config"
    /\ pc = "start"
    /\ outputPath' = localPath
    /\ IF Len(batchFileList) < 1
       THEN /\ exitWith(1, << >>)
            /\ UNCHANGED <<fs, docObj>>
       ELSE IF ReadFile(fs, serverConfigPath).kind # "json"
       THEN /\ exitWith(1, << >>)
            /\ UNCHANGED <<fs, docObj>>
       ELSE /\ docObj' = ReadFile(fs, serverConfigPath).json
            /\ IF localPath \in DOMAIN fs
               THEN /\ log' = Append(log, Asked)
                    /\ pc' = "wait_answer"
                    /\ UNCHANGED <<fs, i, exitCode>>
               ELSE writeJsonAndExit(localPath, localConfOf(docObj'), writeOk, << >>)
    /\ UNCHANGED <<config, transcript, metaVars, mergeVars, jobId, finalDoc, polls, synVars>>

\* the user's answer, and the rest of the command
ConfigAnswer(answer, writeOk) ==
    /\ cmd = "convert-server-config"
    /\ pc = "wait_answer"
    /\ IF promptYesNo(answer) # <<"y">>
       THEN /\ exitWith(0, <<Answered(answer)>>)
            /\ UNCHANGED fs
       ELSE writeJsonAndExit(localPath, localConfOf(docObj), writeOk, <<Answered(answer)>>)
    /\ UNCHANGED <<config, transcript, metaVars, mergeVars, outputPath, docObj, jobId, finalDoc, polls, synVars>>

(***************************************************************************)
(* convert (commands/convert.mjs): <input-file> <output-file>.  The output *)
(* path is the second argument, held in outputFlag; the --to form, which   *)
(* only derives that path from the input's name, is left out.              *)
(***************************************************************************)
\* the interval of convert's poll loop, whatever --poll-interval says
convertPollInterval == 3

ConvertSlept ==
    [file |-> i, dir |-> "sleep", ev |-> "sleep", resp |-> NoResp, secs |-> convertPollInterval,
     path |-> NoPath, doc |-> Undefined, content |-> Absent]

\* chunks.map(...).join('\n\n'): an item's content, else its text, else ''
RECURSIVE chunksMarkdown(_, _)
chunksMarkdown(chunks, k) ==
    IF k > Len(chunks) THEN << >>
    ELSE (IF k > 1 THEN <<"\n\n">> ELSE << >>)
         \o (IF Has(chunks[k], "content") /\ chunks[k].content # << >> THEN chunks[k].content
             ELSE IF Has(chunks[k], "text") /\ chunks[k].text # << >> THEN chunks[k].text
             ELSE << >>)
         \o chunksMarkdown(chunks, k + 1)

\* the markdown of a result or of a .doc.json: markdownContent, else content,
\* else text, else the chunks array; reading a field of null raises.  The
\* documents considered hold a `chunks` object only next to a content, so
\* that the `chunks` read here is always an array.
markdownContentOf(docJson) ==
    IF docJson = JsonNull THEN [threw |-> TRUE, md |-> << >>]
    ELSE IF Has(docJson, "markdownContent") /\ docJson.markdownContent # << >>
        THEN [threw |-> FALSE, md |-> docJson.markdownContent]
    ELSE IF Has(docJson, "content") /\ docJson.content # << >>
        THEN [threw |-> FALSE, md |-> docJson.content]
    ELSE IF Has(docJson, "text") /\ docJson.text # << >>
        THEN [threw |-> FALSE, md |-> docJson.text]
    ELSE IF Has(docJson, "chunks")
        THEN [threw |-> FALSE, md |-> chunksMarkdown(docJson.chunks, 1)]
    ELSE [threw |-> TRUE, md |-> << >>]

\* the submit of convert: POST .../conversions/documents
convertSubmitOutcome(resp) ==
    IF ~resp.net THEN [exit |-> TRUE, jobId |-> NoJob]
    ELSE IF ~ok(resp) THEN [exit |-> TRUE, jobId |-> NoJob]
    ELSE IF resp.json = InvalidJson \/ resp.json = JsonNull THEN [exit |-> TRUE, jobId |-> NoJob]
    ELSE IF ~Has(resp.json, "job_id") \/ ~TruthyStr(resp.json.job_id)
        THEN [exit |-> TRUE, jobId |-> NoJob]
    ELSE [exit |-> FALSE, jobId |-> resp.json.job_id]

\* a poll loop that also gives up on the status `error`
convertStatusOutcomeLeavesOnError(resp) ==
    IF ~resp.net THEN "exit"
    ELSE IF ~ok(resp) THEN "exit"
    ELSE IF resp.json = InvalidJson THEN "exit"
    ELSE IF resp.json = JsonNull THEN "exit"
    ELSE IF Has(resp.json, "status") /\ resp.json.status \in {"complete", "completed"} THEN "fetch"
    ELSE IF Has(resp.json, "status") /\ resp.json.status \in {"failed", "error"} THEN "exit"
    ELSE "sleep"

\* one round of convert's poll loop;  next = "exit" | "fetch" | "sleep"
convertStatusOutcome(resp) ==
    IF ~resp.net THEN "exit"
    ELSE IF ~ok(resp) THEN "exit"
    ELSE IF resp.json = InvalidJson THEN "exit"
    ELSE IF resp.json = JsonNull THEN "exit"
    ELSE IF Has(resp.json, "status") /\ resp.json.status \in {"complete", "completed"} THEN "fetch"
    ELSE IF Has(resp.json, "status") /\ resp.json.status = "failed" THEN "exit"
    ELSE "sleep"

\* the result fetch of convert
convertFetchOutcome(resp) ==
    IF ~resp.net THEN [exit |-> TRUE, docJson |-> Undefined]
    ELSE IF ~ok(resp) THEN [exit |-> TRUE, docJson |-> Undefined]
    ELSE IF resp.json = InvalidJson THEN [exit |-> TRUE, docJson |-> Undefined]
    ELSE [exit |-> FALSE, docJson |-> resp.json]

\* fs.writeFileSync(outputPath, markdownContent, 'utf-8') and the end of the
\* command; a failed write is rethrown and caught by commandConvert
writeMarkdownAndExit(docJson, writeOk, entries) ==
    LET out == markdownContentOf(docJson)
    IN  IF out.threw
        THEN /\ fs' = fs
             /\ exitWith(1, entries)
        ELSE IF writeOk
        THEN /\ fs' = WriteFile(fs, outputFlag, MarkdownFile(out.md))
             /\ exitWith(0, entries \o <<Wrote(outputFlag, docJson, MarkdownFile(out.md))>>)
        ELSE /\ fs' = fs
             /\ exitWith(1, entries \o <<WriteFailed(outputFlag, docJson, MarkdownFile(out.md))>>)

ConvertStart(writeOk) ==
    /\ cmd = "convert"
    /\ pc = "start"
    /\ outputPath' = outputFlag
    /\ IF outputFlag = NoPath \/ ReadFile(fs, inputFile) = Absent
       THEN /\ exitWith(1, << >>)
            /\ UNCHANGED <<fs, docObj>>
       ELSE IF EndsWith(inputFile, <<"doc", "json">>) /\ extname(outputFlag) = "md"
       THEN IF ReadFile(fs, inputFile).kind # "json"
            THEN /\ exitWith(1, << >>)
                 /\ UNCHANGED <<fs, docObj>>
            ELSE /\ docObj' = ReadFile(fs, inputFile).json
                 /\ writeMarkdownAndExit(ReadFile(fs, inputFile).json, writeOk, << >>)
       ELSE IF extname(inputFile) = "docx" /\ extname(outputFlag) = "md"
       THEN /\ log' = Append(log, Req("submit"))
            /\ pc' = "wait_submit"
            /\ UNCHANGED <<fs, docObj, i, exitCode>>
       ELSE /\ exitWith(1, << >>)
            /\ UNCHANGED <<fs, docObj>>
    /\ UNCHANGED <<config, transcript, metaVars, mergeVars, jobId, finalDoc, polls, synVars>>

ConvertSubmitResponse(resp) ==
    /\ cmd = "convert"
    /\ pc = "wait_submit"
    /\ LET out == convertSubmitOutcome(resp)
       IN  IF out.exit
           THEN /\ exitWith(1, <<Resp("submit", resp)>>)
                /\ UNCHANGED jobId
           ELSE /\ jobId' = out.jobId
                /\ log' = log \o <<Resp("submit", resp), ConvertSlept>>
                /\ pc' = "sleeping"
                /\ UNCHANGED <<i, exitCode>>
    /\ UNCHANGED <<config, transcript, metaVars, mergeVars, fs, outputPath, docObj, finalDoc, polls, synVars>>

ConvertSleepDone ==
    /\ cmd = "convert"
    /\ pc = "sleeping"
    /\ pc' = "wait_status"
    /\ log' = Append(log, Req("status"))
    /\ UNCHANGED <<config, transcript, metaVars, mergeVars, fs, i, exitCode, outputPath, docObj, jobId, finalDoc, polls, synVars>>

ConvertStatusResponse(resp) ==
    /\ cmd = "convert"
    /\ pc = "wait_status"
    /\ LET next == convertStatusOutcome(resp)
       IN  CASE next = "exit" ->
                    /\ exitWith(1, <<Resp("status", resp)>>)
                    /\ UNCHANGED polls
             [] next = "fetch" ->
                    /\ log' = log \o <<Resp("status", resp), Req("result")>>
                    /\ pc' = "wait_result"
                    /\ UNCHANGED <<i, exitCode, polls>>
             [] next = "sleep" ->
                    /\ polls < MaxPolls
                    /\ polls' = polls + 1
                    /\ log' = log \o <<Resp("status", resp), ConvertSlept>>
                    /\ pc' = "sleeping"
                    /\ UNCHANGED <<i, exitCode>>
    /\ UNCHANGED <<config, transcript, metaVars, mergeVars, fs, outputPath, docObj, jobId, finalDoc, synVars>>

ConvertResultResponse(resp, writeOk) ==
    /\ cmd = "convert"
    /\ pc = "wait_result"
    /\ LET out == convertFetchOutcome(resp)
       IN  IF out.exit
           THEN /\ exitWith(1, <<Resp("result", resp)>>)
                /\ UNCHANGED <<fs, finalDoc>>
           ELSE /\ finalDoc' = out.docJson
                /\ writeMarkdownAndExit(out.docJson, writeOk, <<Resp("result", resp)>>)
    /\ UNCHANGED <<config, transcript, metaVars, mergeVars, outputPath, docObj, jobId, polls, synVars>>

(***************************************************************************)
(* chat (commands/chat.mjs).  The --system file, when given, is the one    *)
(* name in batchFileList.  A line typed at the prompt is a sequence of     *)
(* characters.                                                             *)
(***************************************************************************)
MaxTranscript == 3

\* fs.readFileSync(systemFile, 'utf-8'), or null without --system
systemText ==
    IF batchFileList = << >> THEN << >> ELSE ReadFile(fs, batchFileList[1]).bytes

\* the body of the POST: payload.system only when systemText is truthy
payload(messages) ==
    IF systemText # << >>
    THEN [model |-> model, transcript |-> [messages |-> messages],
          options |-> [stream |-> FALSE], system |-> systemText]
    ELSE [model |-> model, transcript |-> [messages |-> messages],
          options |-> [stream |-> FALSE]]

ChatReq(body) ==
    [file |-> i, dir |-> "req", ev |-> "chat", resp |-> NoResp, secs |-> 0,
     path |-> NoPath, doc |-> body, content |-> Absent]

\* (resultJson.messages || []).filter(m => m.role === 'assistant')
RECURSIVE assistantMessagesFrom(_, _)
assistantMessagesFrom(messages, k) ==
    IF k > Len(messages) THEN << >>
    ELSE (IF messages[k].role = "assistant" THEN <<messages[k]>> ELSE << >>)
         \o assistantMessagesFrom(messages, k + 1)

assistantMessages(resultJson) ==
    IF Has(resultJson, "messages") THEN assistantMessagesFrom(resultJson.messages, 1) ELSE << >>

\* a chat that reads resultJson inside the try: a body of `null` is one more
\* failed call
chatOutcomeCatchesNull(resp) ==
    IF ~resp.net \/ ~ok(resp) \/ resp.json = InvalidJson \/ resp.json = JsonNull
        THEN [next |-> "continue", pushed |-> << >>]
    ELSE [next |-> "continue", pushed |-> assistantMessages(resp.json)]

\* what follows the POST;  next = "continue": back to the prompt;
\*   "throw": a TypeError leaves commandChat and main().catch ends the process
chatOutcome(resp) ==
    IF ~resp.net THEN [next |-> "continue", pushed |-> << >>]
    ELSE IF ~ok(resp) THEN [next |-> "continue", pushed |-> << >>]
    ELSE IF resp.json = InvalidJson THEN [next |-> "continue", pushed |-> << >>]
    ELSE IF resp.json = JsonNull THEN [next |-> "throw", pushed |-> << >>]
    ELSE [next |-> "continue", pushed |-> assistantMessages(resp.json)]

ChatStart ==
    /\ cmd = "chat"
    /\ pc = "start"
    /\ IF batchFileList # << >> /\ ReadFile(fs, batchFileList[1]) = Absent
       THEN Exit(1)
       ELSE /\ pc' = "prompt"
            /\ UNCHANGED <<i, exitCode>>
    /\ UNCHANGED <<config, metaVars, mergeVars, synVars, transcript, fs, outputPath, docObj, jobId,
                   finalDoc, polls, log>>

\* a line is typed at the prompt
ChatInput(userInput) ==
    /\ cmd = "chat"
    /\ pc = "prompt"
    /\ IF trim(userInput) = << >>
       THEN UNCHANGED <<transcript, log, pc, i, exitCode>>
       ELSE IF toLowerCase(userInput) \in {<<"e", "x", "i", "t">>, <<"q", "u", "i", "t">>}
       THEN /\ Exit(0)
            /\ UNCHANGED <<transcript, log>>
       ELSE /\ Len(transcript) < MaxTranscript
            /\ transcript' = Append(transcript, UserMsg(userInput))
            /\ log' = Append(log, ChatReq(payload(transcript')))
            /\ pc' = "wait_chat"
            /\ UNCHANGED <<i, exitCode>>
    /\ UNCHANGED <<config, metaVars, mergeVars, synVars, fs, outputPath, docObj, jobId, finalDoc, polls>>

ChatResponse(resp) ==
    /\ cmd = "chat"
    /\ pc = "wait_chat"
    /\ log' = Append(log, Resp("chat", resp))
    /\ LET out == chatOutcome(resp)
       IN  IF out.next = "throw"
           THEN /\ Exit(1)
                /\ UNCHANGED transcript
           ELSE /\ transcript' = transcript \o out.pushed
                /\ pc' = "prompt"
                /\ UNCHANGED <<i, exitCode>>
    /\ UNCHANGED <<config, metaVars, mergeVars, synVars, fs, outputPath, docObj, jobId, finalDoc, polls>>

(***************************************************************************)
(* The invocations considered.                                             *)
(***************************************************************************)
TranscribeInputs == { <<"a", "pdf">>, <<"b", "docx">> }
OutputFlags == { NoPath, <<"out", "json">> }

NoFiles == [p \in {} |-> Absent]

\* --poll-interval <seconds>, or the default
PollIntervals == {DefaultPollInterval, DefaultPollInterval + 2}

InitRun ==
    /\ model = DefaultModel
    /\ pollInterval \in PollIntervals
    /\ i = 1
    /\ pc = "start"
    /\ exitCode = -1
    /\ outputPath = NoPath
    /\ docObj = Undefined
    /\ jobId = NoJob
    /\ finalDoc = Undefined
    /\ polls = 0
    /\ log = << >>
    /\ synA = Undefined
    /\ synB = Undefined
    /\ metaDoc = Undefined
    /\ metaPage = Undefined
    /\ transcript = << >>
    /\ docs = << >>
    /\ pageIndex = 0
    /\ mergedDoc = Undefined

InitTranscribe ==
    /\ chunkGroupName = "pages"
    /\ cmd = "transcribe"
    /\ batchMode = FALSE
    /\ continueOnFailure \in BOOLEAN
    /\ outputFormat \in {"doc.json", "md"}
    /\ inline = FALSE
    /\ outputFlag \in OutputFlags
    /\ \E f \in TranscribeInputs :
          /\ batchFileList = <<f>>
          /\ fs \in {NoFiles} \cup { WriteFile(NoFiles, f, BytesFile(b)) : b \in FileBytes }

InitBatch ==
    /\ chunkGroupName = "pages"
    /\ cmd = "transcribe"
    /\ batchMode = TRUE
    /\ continueOnFailure \in BOOLEAN
    /\ outputFormat = "doc.json"
    /\ inline = FALSE
    /\ outputFlag = NoPath
    /\ batchFileList \in { << <<"a", "pdf">> >>, << <<"a", "pdf">>, <<"b", "docx">> >> }
    /\ fs = WriteFile(WriteFile(NoFiles, <<"a", "pdf">>, BytesFile(<< >>)),
                      <<"b", "docx">>, BytesFile(<< >>))

DocumentInputs == { <<"d", "doc", "json">> }
MinimalDoc == [id |-> "min-doc"]
InputDocs == { GoodDoc, MinimalDoc }

InitLegacy ==
    /\ chunkGroupName = "pages"
    /\ cmd = "transcribe-monolith"
    /\ batchMode = FALSE
    /\ continueOnFailure = FALSE
    /\ outputFormat = "doc.json"
    /\ inline = FALSE
    /\ outputFlag \in OutputFlags
    /\ \E f \in TranscribeInputs :
          /\ batchFileList = <<f>>
          /\ fs \in {NoFiles} \cup { WriteFile(NoFiles, f, BytesFile(b)) : b \in FileBytes }

InitDocumentCommand ==
    /\ chunkGroupName = "pages"
    /\ cmd \in {"chunk", "summarize"}
    /\ batchMode = FALSE
    /\ continueOnFailure = FALSE
    /\ outputFormat = "doc.json"
    /\ inline \in BOOLEAN
    /\ outputFlag \in OutputFlags
    /\ \E f \in DocumentInputs :
          /\ batchFileList = <<f>>
          /\ fs \in {NoFiles, WriteFile(NoFiles, f, BytesFile(<< >>))}
                    \cup { WriteFile(NoFiles, f, JsonFile(d)) : d \in InputDocs }

\* convert-server-config: the server's config, the local config already there
ServerConfs ==
    { [models |-> <<"gpt-4o", "gpt-4o-mini">>],
      [server |-> [port |-> 8080, baseUrl |-> <<"/", "/", "charm">>], models |-> << >>],
      [server |-> [baseUrl |-> << >>]] }

OldLocalConf ==
    [port |-> 5002, hostname |-> "old-host", baseUrlPrefix |-> <<"ai2">>, model |-> "gpt-4o"]

Answers ==
    { <<"y">>, <<"Y">>, <<" ", "Y", "\t">>, <<"y", "e", "s">>, <<"n">>, << >>, <<"y", " ", "y">> }

InitConvertServerConfig ==
    /\ chunkGroupName = "pages"
    /\ cmd = "convert-server-config"
    /\ batchMode = FALSE
    /\ continueOnFailure = FALSE
    /\ outputFormat = "doc.json"
    /\ inline = FALSE
    /\ outputFlag = NoPath
    /\ batchFileList \in { << >>, << <<"server", "config", "json">> >> }
    /\ \E server \in {Absent, BytesFile(<< >>)} \cup {JsonFile(c) : c \in ServerConfs},
          local \in {Absent, JsonFile(OldLocalConf)} :
          fs = [p \in (IF server = Absent THEN {} ELSE {<<"server", "config", "json">>})
                        \cup (IF local = Absent THEN {} ELSE {localPath}) |->
                   IF p = localPath THEN local ELSE server]

\* merge-transcriptions: the documents merged
MaxPages == 2

SourcePage(v) ==
    [ id |-> <<"src", "/pages@">>, parent |-> "src",
      content |-> <<"text ", ToString(v)>>,
      metadata |-> [page_number |-> v] ]

SourceDoc(v, n) ==
    [ id |-> "doc-a",
      metadata |-> [revision |-> v],
      chunks |-> [ pages |-> [k \in 1..n |-> SourcePage(v + k - 1)],
                   raw |-> <<SourcePage(v)>> ] ]

\* a document without id and metadata, whose page has no metadata either
BareDoc ==
    [ chunks |-> [ pages |-> << [content |-> <<"bare text">>] >>,
                   raw |-> << [content |-> <<"bare text">>] >> ] ]

MergeDocs ==
    { SourceDoc(v, n) : v \in {5, 7}, n \in 0..MaxPages } \cup { BareDoc, MinimalDoc }

MergeInputs == << <<"t1", "doc", "json">>, <<"t2", "doc", "json">>, <<"t3", "doc", "json">> >>

InitMerge ==
    /\ cmd = "merge-transcriptions"
    /\ batchMode = FALSE
    /\ continueOnFailure = FALSE
    /\ outputFormat = "doc.json"
    /\ inline = FALSE
    /\ outputFlag \in OutputFlags
    /\ chunkGroupName \in {"pages", "raw"}
    /\ \E count \in 1..3 :
          /\ batchFileList = SubSeq(MergeInputs, 1, count)
          /\ \/ \E ds \in [1..count -> MergeDocs] :
                   fs = [p \in {MergeInputs[n] : n \in 1..count} |->
                            JsonFile(ds[CHOOSE n \in 1..count : MergeInputs[n] = p])]
             \/ fs = [p \in {MergeInputs[n] : n \in 1..(count - 1)} |-> JsonFile(MinimalDoc)]

(***************************************************************************)
(* The synthesizers alone: two input files holding the same bytes, and two *)
(* invocations, each with its own file, failure, model and clock readings. *)
(***************************************************************************)
HttpFailures == { Http(500, "Internal Server Error", InvalidJson) }
Exceptions == { NetworkError, JsonParseError }

Invocation(kind, file, mdl, doc) ==
    [kind |-> kind, inputFile |-> file, fileBuffer |-> ReadFile(fs, file).bytes,
     model |-> mdl, doc |-> doc]

Record(inv) ==
    IF synA = Undefined
    THEN /\ synA' = inv
         /\ synB' = synB
    ELSE /\ synB = Undefined
         /\ inv.fileBuffer = synA.fileBuffer
         /\ synB' = inv
         /\ synA' = synA

SynthFromError(statusRes, file, mdl, t1, t2) ==
    /\ pc = "synthesizer"
    /\ Record(Invocation("error", file, mdl,
                 createPartialResultFromError(statusRes, file, mdl,
                                              ReadFile(fs, file).bytes, t1, t2)))
    /\ UNCHANGED <<config, transcript, metaVars, mergeVars, fs, i, pc, exitCode, outputPath, docObj, jobId, finalDoc, polls, log>>

SynthFromHttpError(resp, file, mdl, t1, t2) ==
    /\ pc = "synthesizer"
    /\ Record(Invocation("http", file, mdl,
                 createPartialResultFromHttpError(resp.status, resp.text, file, mdl,
                                                  ReadFile(fs, file).bytes, t1, t2)))
    /\ UNCHANGED <<config, transcript, metaVars, mergeVars, fs, i, pc, exitCode, outputPath, docObj, jobId, finalDoc, polls, log>>

SynthFromTimeout(file, mdl, t1, t2) ==
    /\ pc = "synthesizer"
    /\ Record(Invocation("timeout", file, mdl,
                 createPartialResultFromTimeout(file, mdl, ReadFile(fs, file).bytes, t1, t2)))
    /\ UNCHANGED <<config, transcript, metaVars, mergeVars, fs, i, pc, exitCode, outputPath, docObj, jobId, finalDoc, polls, log>>

SynthFromException(error, file, mdl, t1, t2) ==
    /\ pc = "synthesizer"
    /\ Record(Invocation("exception", file, mdl,
                 createPartialResultFromException(error, file, mdl,
                                                  ReadFile(fs, file).bytes, t1, t2)))
    /\ UNCHANGED <<config, transcript, metaVars, mergeVars, fs, i, pc, exitCode, outputPath, docObj, jobId, finalDoc, polls, log>>

InitSynth ==
    /\ chunkGroupName = "pages"
    /\ cmd = "transcribe"
    /\ batchMode = TRUE
    /\ continueOnFailure = TRUE
    /\ outputFormat = "doc.json"
    /\ inline = FALSE
    /\ outputFlag = NoPath
    /\ model = DefaultModel
    /\ pollInterval = DefaultPollInterval
    /\ batchFileList = << <<"a", "pdf">>, <<"b", "docx">> >>
    /\ \E b \in FileBytes :
          fs = WriteFile(WriteFile(NoFiles, <<"a", "pdf">>, BytesFile(b)),
                         <<"b", "docx">>, BytesFile(b))
    /\ i = 1
    /\ pc = "synthesizer"
    /\ exitCode = -1
    /\ outputPath = NoPath
    /\ docObj = Undefined
    /\ jobId = NoJob
    /\ finalDoc = Undefined
    /\ polls = 0
    /\ log = << >>
    /\ synA = Undefined
    /\ synB = Undefined
    /\ metaDoc = Undefined
    /\ metaPage = Undefined
    /\ transcript = << >>
    /\ docs = << >>
    /\ pageIndex = 0
    /\ mergedDoc = Undefined

SynthNext ==
    \/ \E statusRes \in ErrorBodies, file \in TranscribeInputs, mdl \in Models,
          t1 \in Times, t2 \in Times :
          t1 <= t2 /\ SynthFromError(statusRes, file, mdl, t1, t2)
    \/ \E resp \in HttpFailures, file \in TranscribeInputs, mdl \in Models,
          t1 \in Times, t2 \in Times :
          t1 <= t2 /\ SynthFromHttpError(resp, file, mdl, t1, t2)
    \/ \E file \in TranscribeInputs, mdl \in Models, t1 \in Times, t2 \in Times :
          t1 <= t2 /\ SynthFromTimeout(file, mdl, t1, t2)
    \/ \E error \in Exceptions, file \in TranscribeInputs, mdl \in Models,
          t1 \in Times, t2 \in Times :
          t1 <= t2 /\ SynthFromException(error, file, mdl, t1, t2)

SynthSpec == InitSynth /\ [][SynthNext]_vars

Init ==
    /\ InitRun
    /\ \/ InitTranscribe
       \/ InitBatch
       \/ InitLegacy
       \/ InitDocumentCommand
       \/ InitMerge
       \/ InitConvertServerConfig

Next ==
    \/ TranscribeStart
    \/ \E resp \in SubmitResponses : TranscribeSubmitResponse(resp)
    \/ TranscribeSleepDone
    \/ \E resp \in StatusResponses, t1 \in Times, t2 \in Times, writeOk \in BOOLEAN :
          t1 <= t2 /\ TranscribeStatusResponse(resp, t1, t2, writeOk)
    \/ \E resp \in ConversionResultResponses, t1 \in Times, t2 \in Times, writeOk \in BOOLEAN :
          t1 <= t2 /\ TranscribeResultResponse(resp, t1, t2, writeOk)
    \/ ChunkStart
    \/ \E resp \in SubmitResponses : ChunkSubmitResponse(resp)
    \/ ChunkSleepDone
    \/ \E resp \in StatusResponses : ChunkStatusResponse(resp)
    \/ \E resp \in ChunkingResultResponses, writeOk \in BOOLEAN : ChunkResultResponse(resp, writeOk)
    \/ SummarizeStart
    \/ \E resp \in SubmitResponses : SummarizeSubmitResponse(resp)
    \/ SummarizeSleepDone
    \/ \E resp \in StatusResponses : SummarizeStatusResponse(resp)
    \/ \E resp \in SummaryResultResponses, writeOk \in BOOLEAN : SummarizeResultResponse(resp, writeOk)
    \/ LegacyStart
    \/ \E resp \in SubmitResponses : LegacySubmitResponse(resp)
    \/ LegacySleepDone
    \/ \E resp \in StatusResponses : LegacyStatusResponse(resp)
    \/ \E resp \in ConversionResultResponses, writeOk \in BOOLEAN : LegacyResultResponse(resp, writeOk)
    \/ \E writeOk \in BOOLEAN : MergeStart(writeOk)
    \/ \E resp \in MergeResponses, writeOk \in BOOLEAN : MergePageResponse(resp, writeOk)
    \/ \E writeOk \in BOOLEAN : ConfigStart(writeOk)
    \/ \E answer \in Answers, writeOk \in BOOLEAN : ConfigAnswer(answer, writeOk)

Spec == Init /\ [][Next]_vars

(***************************************************************************)
(* merge-transcriptions alone, over a directory in which an earlier merge  *)
(* left its output under the default name: that output is merged again     *)
(* with another transcription, with or without --output.                   *)
(***************************************************************************)
RemergeInputs == << DefaultMergeOutput, <<"t2", "doc", "json">> >>

InitRemerge ==
    /\ InitRun
    /\ cmd = "merge-transcriptions"
    /\ batchMode = FALSE
    /\ continueOnFailure = FALSE
    /\ outputFormat = "doc.json"
    /\ inline = FALSE
    /\ outputFlag \in OutputFlags \cup {RemergeInputs[2]}
    /\ chunkGroupName \in {"pages", "raw"}
    /\ batchFileList = RemergeInputs
    /\ \E ds \in [1..2 -> MergeDocs] :
          fs = [p \in {RemergeInputs[1], RemergeInputs[2]} |->
                   JsonFile(ds[CHOOSE n \in 1..2 : RemergeInputs[n] = p])]

RemergeNext ==
    \/ \E writeOk \in BOOLEAN : MergeStart(writeOk)
    \/ \E resp \in MergeResponses, writeOk \in BOOLEAN : MergePageResponse(resp, writeOk)

RemergeSpec == InitRemerge /\ [][RemergeNext]_vars

(***************************************************************************)
(* Metadata reconciliation alone: the two copies of the merge, each applied *)
(* to a list of sources (documents, or the chunks of a page; only their    *)
(* metadata matters).                                                      *)
(***************************************************************************)
SourceMetadata ==
    { [id |-> "no-metadata"],
      [metadata |-> [page_number |-> 5]],
      [metadata |-> [page_number |-> 7, revision |-> 7]] }

SourceLists == UNION { [1..n -> SourceMetadata] : n \in 2..3 }

ReconcileDocLevel(sources) ==
    /\ metaDoc' = [sources |-> sources, merged |-> mergeDocMetadata(sources)]
    /\ UNCHANGED <<config, transcript, mergeVars, synVars, metaPage, fs, i, pc, exitCode, outputPath,
                   docObj, jobId, finalDoc, polls, log>>

ReconcilePageLevel(sources) ==
    /\ metaPage' = [sources |-> sources, merged |-> mergePageMetadata(sources)]
    /\ UNCHANGED <<config, transcript, mergeVars, synVars, metaDoc, fs, i, pc, exitCode, outputPath,
                   docObj, jobId, finalDoc, polls, log>>

InitReconcile ==
    /\ InitRun
    /\ pollInterval = DefaultPollInterval
    /\ cmd = "merge-transcriptions"
    /\ batchMode = FALSE
    /\ continueOnFailure = FALSE
    /\ outputFormat = "doc.json"
    /\ inline = FALSE
    /\ outputFlag = NoPath
    /\ chunkGroupName = "pages"
    /\ batchFileList = << >>
    /\ fs = NoFiles

ReconcileNext ==
    \/ \E sources \in SourceLists : ReconcileDocLevel(sources)
    \/ \E sources \in SourceLists : ReconcilePageLevel(sources)

ReconcileSpec == InitReconcile /\ [][ReconcileNext]_vars

(***************************************************************************)
(* convert alone: a .docx sent to the server, a .doc.json converted        *)
(* locally, and the invocations commandConvert refuses.                    *)
(***************************************************************************)
ConvertInputs == { <<"a", "docx">>, <<"d", "doc", "json">>, <<"a", "pdf">> }
ConvertOutputs == { NoPath, <<"a", "md">>, <<"a", "txt">> }

MarkdownDoc == [markdownContent |-> <<"# md">>]

MarkdownResults ==
    { MarkdownDoc,
      [text |-> <<"plain">>],
      [chunks |-> << [content |-> <<"one">>], [text |-> <<"two">>], [id |-> "c3"] >>],
      PlainDoc,
      [status |-> "processing"],
      JsonNull }

MarkdownResultResponses ==
    { NetErr,
      Http(500, "Internal Server Error", InvalidJson),
      Http(200, "<html>", InvalidJson) }
    \cup { Http(200, "", d) : d \in MarkdownResults }

ConvertStatusResponses == StatusResponses \cup { Http(200, "", [status |-> "completed"]) }

InitConvert ==
    /\ InitRun
    /\ chunkGroupName = "pages"
    /\ cmd = "convert"
    /\ batchMode = FALSE
    /\ continueOnFailure = FALSE
    /\ outputFormat = "md"
    /\ inline = FALSE
    /\ outputFlag \in ConvertOutputs
    /\ \E f \in ConvertInputs :
          /\ batchFileList = <<f>>
          /\ fs \in {NoFiles, WriteFile(NoFiles, f, BytesFile(<< >>))}
                    \cup { WriteFile(NoFiles, f, JsonFile(d)) :
                             d \in IF EndsWith(f, <<"doc", "json">>)
                                   THEN {PlainDoc, MinimalDoc, MarkdownDoc} ELSE {} }

ConvertNext ==
    \/ \E writeOk \in BOOLEAN : ConvertStart(writeOk)
    \/ \E resp \in SubmitResponses : ConvertSubmitResponse(resp)
    \/ ConvertSleepDone
    \/ \E resp \in ConvertStatusResponses : ConvertStatusResponse(resp)
    \/ \E resp \in MarkdownResultResponses, writeOk \in BOOLEAN : ConvertResultResponse(resp, writeOk)

ConvertSpec == InitConvert /\ [][ConvertNext]_vars

(***************************************************************************)
(* transcribe of one file against a server that answers every request,     *)
(* reports a non-terminal status at most MaxPolls times, answers the       *)
(* result request with 200 and a document, and with a local disk that      *)
(* takes the write.  The event loop runs every timer that is due and every *)
(* continuation whose answer arrived: weak fairness of the steps.          *)
(***************************************************************************)
DocumentAnswers == { Http(200, "", d) : d \in ConversionResults \ {JsonNull} }

InitLive ==
    /\ InitRun
    /\ InitTranscribe
    /\ pollInterval = DefaultPollInterval

LiveNext ==
    \/ TranscribeStart
    \/ \E resp \in SubmitResponses : TranscribeSubmitResponse(resp)
    \/ TranscribeSleepDone
    \/ \E resp \in StatusResponses, t1 \in Times, t2 \in Times :
          t1 <= t2 /\ TranscribeStatusResponse(resp, t1, t2, TRUE)
    \/ \E resp \in DocumentAnswers, t1 \in Times, t2 \in Times :
          t1 <= t2 /\ TranscribeResultResponse(resp, t1, t2, TRUE)

LiveSpec == InitLive /\ [][LiveNext]_vars /\ WF_vars(LiveNext)

(***************************************************************************)
(* transcribe --batch --continue-on-failure against a server that answers  *)
(* every request, well or badly, and reports a non-terminal status at most *)
(* MaxPolls times per job; the write may fail.  The steps are weakly fair. *)
(***************************************************************************)
InitBatchContinue ==
    /\ InitRun
    /\ InitBatch
    /\ continueOnFailure

BatchNext ==
    \/ TranscribeStart
    \/ \E resp \in SubmitResponses : TranscribeSubmitResponse(resp)
    \/ TranscribeSleepDone
    \/ \E resp \in StatusResponses, t1 \in Times, t2 \in Times, writeOk \in BOOLEAN :
          t1 <= t2 /\ TranscribeStatusResponse(resp, t1, t2, writeOk)
    \/ \E resp \in ConversionResultResponses, t1 \in Times, t2 \in Times, writeOk \in BOOLEAN :
          t1 <= t2 /\ TranscribeResultResponse(resp, t1, t2, writeOk)

BatchFairSpec == InitBatchContinue /\ [][BatchNext]_vars /\ WF_vars(BatchNext)

(***************************************************************************)
(* chat alone: with and without a --system file, lines typed at the        *)
(* prompt, answers of the server to /transcript/extension.                 *)
(***************************************************************************)
SystemFile == <<"sys", "txt">>

UserInputs ==
    { << >>, <<" ", "\t">>, <<"h", "i">>, <<"e", "x", "i", "t">>, <<"Q", "u", "I", "T">>,
      <<" ", "e", "x", "i", "t">> }

ChatAnswers ==
    { NetErr,
      Http(500, "boom", InvalidJson),
      Http(200, "<html>", InvalidJson),
      Http(200, "", JsonNull),
      Http(200, "", [id |-> "no-messages"]),
      Http(200, "", [messages |-> <<AssistantMsg(<<"y", "o">>)>>]),
      Http(200, "", [messages |-> <<UserMsg(<<"h", "i">>), AssistantMsg(<<"y", "o">>)>>]) }

InitChat ==
    /\ InitRun
    /\ chunkGroupName = "pages"
    /\ cmd = "chat"
    /\ batchMode = FALSE
    /\ continueOnFailure = FALSE
    /\ outputFormat = "doc.json"
    /\ inline = FALSE
    /\ outputFlag = NoPath
    /\ batchFileList \in { << >>, <<SystemFile>> }
    /\ fs \in { NoFiles, WriteFile(NoFiles, SystemFile, BytesFile(<< >>)),
                WriteFile(NoFiles, SystemFile, BytesFile(<<"b", "e">>)) }

ChatNext ==
    \/ ChatStart
    \/ \E userInput \in UserInputs : ChatInput(userInput)
    \/ \E resp \in ChatAnswers : ChatResponse(resp)

ChatSpec == InitChat /\ [][ChatNext]_vars

(***************************************************************************)
(* Reading the log.                                                        *)
(***************************************************************************)
LogIdx == 1..Len(log)
IsRequest(k, ev) == log[k].dir = "req" /\ log[k].ev = ev
IsResponse(k, ev) == log[k].dir = "resp" /\ log[k].ev = ev
IsWriteAttempt(k) == log[k].dir = "write"
IsWritten(k) == log[k].dir = "write" /\ log[k].ev = "write"
NothingWritten == \A k \in LogIdx : ~IsWriteAttempt(k)

\* a submit answer that carries a job id
GaveJobId(r) ==
    /\ r.net /\ ok(r)
    /\ Has(r.json, "job_id") /\ TruthyStr(r.json.job_id)
\* a status answer reporting the job as failed
ErrorStatus(r) ==
    /\ r.net /\ ok(r)
    /\ Has(r.json, "status") /\ r.json.status = "error"
\* an answer with a non-2xx status
HttpFailure(r) == r.net /\ ~ok(r)
\* a result fetch that raises: the transport fails or the body is not JSON
FetchException(r) == ~r.net \/ (ok(r) /\ r.status # 202 /\ r.json = InvalidJson)
Premature202(r) == r.net /\ r.status = 202
\* a result fetch that yields a body
FetchedBody(r) == r.net /\ ok(r) /\ r.status # 202 /\ r.json # InvalidJson
\* a submit or status answer no job can proceed from
SubmitFailure(r) == ~GaveJobId(r)
PollFailure(r) == ~r.net \/ ~ok(r) \/ r.json = InvalidJson \/ r.json = JsonNull

\* the entry that follows a response is the write of a placeholder naming `file`
IsPlaceholder(doc, file) ==
    /\ Truthy(doc)
    /\ Has(doc, "metadata")
    /\ Has(doc.metadata, "transcription_status")
    /\ doc.metadata.transcription_status = "failed"
    /\ Has(doc.metadata, "originating_filename")
    /\ doc.metadata.originating_filename = file

PlaceholderFollows(k) ==
    /\ k < Len(log)
    /\ IsWriteAttempt(k + 1)
    /\ IsPlaceholder(log[k + 1].doc, batchFileList[log[k].file])
    /\ log[k + 1].path = transcribeOutputPath(batchFileList[log[k].file],
                                               IF batchMode THEN NoPath ELSE outputFlag,
                                               outputFormat)

EndedWithFailure == pc = "exited" /\ exitCode = 1

\* the entry before a write says where the written document came from
WriteOfFetched(k) ==
    /\ k > 1 /\ IsWriteAttempt(k)
    /\ IsResponse(k - 1, "result") /\ FetchedBody(log[k - 1].resp)
WriteOfSynthesized(k) ==
    /\ k > 1 /\ IsWriteAttempt(k)
    /\ log[k - 1].dir = "resp"
    /\ ~(IsResponse(k - 1, "result") /\ FetchedBody(log[k - 1].resp))

\* a `pages` chunk group with at least one chunk bearing id, parent, content, metadata
HasFullPage(doc) ==
    /\ Truthy(doc)
    /\ Has(doc, "chunks")
    /\ Has(doc.chunks, "pages")
    /\ \E n \in 1..Len(doc.chunks.pages) :
          {"id", "parent", "content", "metadata"} \subseteq DOMAIN doc.chunks.pages[n]

(***************************************************************************)
(* C1: for one job in transcribe, chunk and summarize the requests occur   *)
(* in the order submit, status polls, at most one result fetch: the submit *)
(* is the first request and the only submit, a status request is issued    *)
(* only after the submit returned a job id, a result request only after a  *)
(* status poll was answered, and no request follows the result request.    *)
(***************************************************************************)
C1_RequestOrder ==
    cmd \in {"transcribe", "chunk", "summarize"} =>
        \A k \in LogIdx :
            /\ IsRequest(k, "submit") => k = 1
            /\ IsRequest(k, "status") =>
                   /\ \E j \in 1..(k - 1) : IsResponse(j, "submit") /\ GaveJobId(log[j].resp)
                   /\ \A j \in 1..(k - 1) : ~IsRequest(j, "result")
            /\ IsRequest(k, "result") =>
                   /\ \E j \in 1..(k - 1) : IsResponse(j, "status")
                   /\ \A j \in LogIdx : j # k => ~IsRequest(j, "result")
                   /\ \A j \in (k + 1)..Len(log) : log[j].dir # "req"

C1_Witness ==
    /\ cmd = "summarize"
    /\ polls >= 1
    /\ \E k \in LogIdx : IsResponse(k, "result")

(***************************************************************************)
(* C2: in strict mode (no --continue-on-failure) a single-file transcribe  *)
(* (the command module and the monolithic script) that observes an `error` *)
(* job status, a non-success HTTP response on submit, poll or result       *)
(* fetch, or an exception during the fetch has ended with exit code 1, and *)
(* no output was written: no write was attempted and nothing is at the     *)
(* output path.                                                            *)
(***************************************************************************)
StrictFailureObserved(k) ==
    /\ log[k].dir = "resp"
    /\ \/ IsResponse(k, "status") /\ ErrorStatus(log[k].resp)
       \/ HttpFailure(log[k].resp)
       \/ IsResponse(k, "result") /\ FetchException(log[k].resp)

C2_StrictFailureIsFatal ==
    (cmd \in {"transcribe", "transcribe-monolith"} /\ ~batchMode /\ ~continueOnFailure) =>
        \A k \in LogIdx :
            StrictFailureObserved(k) =>
                /\ EndedWithFailure
                /\ NothingWritten
                /\ outputPath \notin DOMAIN fs

C2_Witness ==
    /\ cmd = "transcribe" /\ ~batchMode /\ ~continueOnFailure
    /\ \E k \in LogIdx : IsResponse(k, "status") /\ ErrorStatus(log[k].resp)
    /\ EndedWithFailure

(***************************************************************************)
(* C3 as claimed: with --continue-on-failure every failure that is fatal   *)
(* in strict mode (an `error` status, a non-success HTTP response on       *)
(* submit, poll or result fetch, an exception during the fetch) is         *)
(* followed by the write of a placeholder for that input file, and the     *)
(* process is not ended by the failure (a failing local write aside).      *)
(***************************************************************************)
C3_EveryFailureRouted ==
    (cmd = "transcribe" /\ continueOnFailure) =>
        \A k \in LogIdx :
            StrictFailureObserved(k) =>
                /\ PlaceholderFollows(k)
                /\ IsWritten(k + 1) => ~EndedWithFailure

(***************************************************************************)
(* C3 amended: with --continue-on-failure an `error` job status and every  *)
(* failure of the result fetch (non-success HTTP response, HTTP 202,       *)
(* exception) are followed by the write of a placeholder for that input    *)
(* file, which is at the output path and leaves the process running or     *)
(* ended with exit 0 unless the local write fails; a failure of the submit *)
(* or of a status poll writes nothing: the single-file run ends with exit  *)
(* code 1, the batch run goes on to the next file.                         *)
(***************************************************************************)
RoutedFailure(k) ==
    \/ IsResponse(k, "status") /\ ~PollFailure(log[k].resp) /\ ErrorStatus(log[k].resp)
    \/ IsResponse(k, "result") /\ ~FetchedBody(log[k].resp)

UnroutedFailure(k) ==
    \/ IsResponse(k, "submit") /\ SubmitFailure(log[k].resp)
    \/ IsResponse(k, "status") /\ PollFailure(log[k].resp)

C3_FetchAndJobFailuresRouted ==
    (cmd = "transcribe" /\ continueOnFailure) =>
        \A k \in LogIdx :
            /\ RoutedFailure(k) =>
                   /\ PlaceholderFollows(k)
                   /\ IsWritten(k + 1) =>
                          /\ ReadFile(fs, log[k + 1].path) = log[k + 1].content
                          /\ ~EndedWithFailure
            /\ UnroutedFailure(k) =>
                   /\ NothingWritten
                   /\ outputPath \notin DOMAIN fs
                   /\ IF batchMode
                      THEN ~EndedWithFailure /\ (pc = "start" \/ pc = "exited")
                      ELSE EndedWithFailure

C3_Witness ==
    /\ cmd = "transcribe" /\ continueOnFailure /\ batchMode
    /\ i = 2 /\ pc = "start"
    /\ \E k \in LogIdx : IsResponse(k, "status") /\ HttpFailure(log[k].resp)

(***************************************************************************)
(* C4: in transcribe (the command module and the monolithic script) an     *)
(* HTTP 202 answer to the result fetch is never taken as the result and    *)
(* the fetch is not repeated; it is handled as an `error` job status is:   *)
(* in strict mode the run ends with exit code 1 and no output, under       *)
(* --continue-on-failure a synthesized placeholder is written.             *)
(***************************************************************************)
FailurePathTaken(k) ==
    IF continueOnFailure
    THEN /\ PlaceholderFollows(k)
         /\ finalDoc = log[k + 1].doc
         /\ IsWritten(k + 1) => ReadFile(fs, log[k + 1].path) = log[k + 1].content
    ELSE /\ EndedWithFailure
         /\ NothingWritten
         /\ outputPath \notin DOMAIN fs

C4_Premature202IsFailure ==
    cmd \in {"transcribe", "transcribe-monolith"} =>
        \A k \in LogIdx :
            /\ (IsResponse(k, "status") /\ ErrorStatus(log[k].resp)) => FailurePathTaken(k)
            /\ (IsResponse(k, "result") /\ Premature202(log[k].resp)) =>
                   /\ FailurePathTaken(k)
                   /\ finalDoc # log[k].resp.json
                   /\ \A j \in LogIdx : IsWriteAttempt(j) => log[j].doc # log[k].resp.json
                   /\ Cardinality({j \in LogIdx : IsRequest(j, "result")}) = 1
                   /\ \A j \in LogIdx : IsRequest(j, "result") => j < k

C4_Witness ==
    /\ cmd = "transcribe" /\ continueOnFailure
    /\ \E k \in LogIdx :
          /\ IsResponse(k, "result") /\ Premature202(log[k].resp)
          /\ k < Len(log) /\ IsWritten(k + 1)

(***************************************************************************)
(* C5: in chunk and summarize an HTTP 202 answer to the result fetch is a  *)
(* failure: the command has ended with exit code 1, no file was written,   *)
(* and the files are as they were (the input file still holds the document *)
(* that was read, also with --inline).                                     *)
(***************************************************************************)
C5_ChunkSummarize202IsFailure ==
    cmd \in {"chunk", "summarize"} =>
        \A k \in LogIdx :
            (IsResponse(k, "result") /\ Premature202(log[k].resp)) =>
                /\ EndedWithFailure
                /\ \A j \in LogIdx : ~IsWritten(j)
                /\ DOMAIN fs = {inputFile}
                /\ ReadFile(fs, inputFile) = JsonFile(docObj)

(***************************************************************************)
(* C6: for every input file and each of the four synthesizers, the         *)
(* synthesized document's id and metadata.document_sha256 both equal the   *)
(* digest of exactly the bytes the input file holds; two invocations on    *)
(* identical bytes give the same value whatever the failure kind, the      *)
(* file name, the model and the time.                                      *)
(***************************************************************************)
Invocations == {s \in {synA, synB} : s # Undefined}

C6_IdIsHashOfBytes ==
    /\ \A s \in Invocations :
          /\ s.fileBuffer = ReadFile(fs, s.inputFile).bytes
          /\ s.doc.id = sha256hex(s.fileBuffer)
          /\ s.doc.metadata.document_sha256 = sha256hex(s.fileBuffer)
    /\ (synA # Undefined /\ synB # Undefined /\ synA.fileBuffer = synB.fileBuffer) =>
          /\ synA.doc.id = synB.doc.id
          /\ synA.doc.metadata.document_sha256 = synB.doc.metadata.document_sha256

C6_Witness ==
    /\ synA # Undefined /\ synB # Undefined
    /\ Len(synA.fileBuffer) >= 1
    /\ synA.kind = "error" /\ synB.kind = "exception"
    /\ synA.inputFile # synB.inputFile
    /\ synA.model # synB.model
    /\ synA.doc.metadata.transcription_error.timestamp
           # synB.doc.metadata.transcription_error.timestamp

(***************************************************************************)
(* C7: every document the synthesizers produce, on each of the four        *)
(* failure paths, has exactly one chunk group, named `pages`, holding      *)
(* exactly one chunk.                                                      *)
(***************************************************************************)
C7_OnePagesGroupOneChunk ==
    \A s \in Invocations :
        /\ DOMAIN s.doc.chunks = {"pages"}
        /\ Len(s.doc.chunks.pages) = 1

C7_Witness ==
    /\ synA # Undefined /\ synB # Undefined
    /\ synA.kind = "http" /\ synB.kind = "timeout"
    /\ Len(synB.doc.chunks.pages) = 1

(***************************************************************************)
(* C8 as claimed: every document transcribe writes, fetched or             *)
(* synthesized, has a `pages` chunk group with at least one chunk bearing  *)
(* id, parent, content and metadata, whatever the server answered.         *)
(***************************************************************************)
C8_EveryWrittenDocHasFullPage ==
    cmd = "transcribe" =>
        \A k \in LogIdx : IsWritten(k) => HasFullPage(log[k].doc)

(***************************************************************************)
(* C8 amended: every synthesized placeholder transcribe writes has a       *)
(* `pages` chunk group with at least one chunk bearing id, parent, content *)
(* and metadata; the body of a successful result fetch is written as the   *)
(* server returned it, unvalidated, so it has that shape exactly when the  *)
(* server's body has it.                                                   *)
(***************************************************************************)
C8_PlaceholdersHaveFullPage ==
    cmd = "transcribe" =>
        \A k \in LogIdx :
            IsWriteAttempt(k) =>
                /\ WriteOfSynthesized(k) \/ WriteOfFetched(k)
                /\ WriteOfSynthesized(k) => HasFullPage(log[k].doc)
                /\ WriteOfFetched(k) =>
                       (HasFullPage(log[k].doc) <=> HasFullPage(log[k - 1].resp.json))

C8_Witness ==
    /\ cmd = "transcribe"
    /\ \E k \in LogIdx :
          /\ IsWritten(k) /\ WriteOfFetched(k)
          /\ ~HasFullPage(log[k].doc)
          /\ ReadFile(fs, log[k].path) = log[k].content

(***************************************************************************)
(* C9: every synthesized document transcribe writes has                    *)
(* metadata.transcription_status = "failed"; a document obtained from a    *)
(* successful result fetch is handed to the write exactly as the server    *)
(* returned it: the JSON output is that body, the Markdown output is the   *)
(* rendering of that body.                                                 *)
(***************************************************************************)
C9_StatusDiscriminates ==
    cmd = "transcribe" =>
        \A k \in LogIdx :
            /\ WriteOfSynthesized(k) =>
                   /\ Has(log[k].doc, "metadata")
                   /\ Has(log[k].doc.metadata, "transcription_status")
                   /\ log[k].doc.metadata.transcription_status = "failed"
            /\ WriteOfFetched(k) =>
                   LET body == log[k - 1].resp.json
                   IN  /\ log[k].doc = body
                       /\ log[k].content =
                              IF outputFormat = "md"
                              THEN MarkdownFile(convertDocToMarkdown(body))
                              ELSE JsonFile(body)
                       /\ IsWritten(k) => ReadFile(fs, log[k].path) = log[k].content

C9_Witness ==
    /\ cmd = "transcribe" /\ outputFormat = "doc.json"
    /\ \E k \in LogIdx :
          /\ IsWritten(k) /\ WriteOfFetched(k)
          /\ log[k].doc = PlainDoc

(***************************************************************************)
(* C10 as claimed: the error_type recorded in a written synthesized        *)
(* document (in metadata.transcription_error and in the chunk's metadata)  *)
(* is always one of job_error, http_error, timeout, exception: job_error   *)
(* after an `error` status, http_error after a non-OK HTTP answer to the   *)
(* result fetch, timeout after a 202, exception after a thrown exception.  *)
(***************************************************************************)
FailureCategories == {"job_error", "http_error", "timeout", "exception"}

\* the category of the failure the response log[k] is
FetchFailureCategory(k) ==
    IF HttpFailure(log[k].resp) THEN "http_error"
    ELSE IF Premature202(log[k].resp) THEN "timeout"
    ELSE "exception"

RecordedTypes(doc) ==
    { doc.metadata.transcription_error.error_type, doc.chunks.pages[1].metadata.error_type }

C10_ErrorTypeIsCategory ==
    cmd = "transcribe" =>
        \A k \in LogIdx :
            (WriteOfSynthesized(k) /\ IsWritten(k)) =>
                /\ RecordedTypes(log[k].doc) \subseteq FailureCategories
                /\ RecordedTypes(log[k].doc) =
                       { IF IsResponse(k - 1, "status") THEN "job_error"
                         ELSE FetchFailureCategory(k - 1) }

(***************************************************************************)
(* C10 amended: after an `error` status the recorded error_type is the     *)
(* error_type the server reported, and job_error only when the server      *)
(* reported none; after a non-OK HTTP answer to the result fetch it is     *)
(* http_error, after a 202 timeout, after a thrown exception exception.    *)
(* Both places of the document record the same value.                      *)
(***************************************************************************)
C10_ErrorTypeByPath ==
    cmd = "transcribe" =>
        \A k \in LogIdx :
            WriteOfSynthesized(k) =>
                RecordedTypes(log[k].doc) =
                    { IF IsResponse(k - 1, "status")
                      THEN OrElse(log[k - 1].resp.json, "error_type", "job_error")
                      ELSE FetchFailureCategory(k - 1) }

C10_Witness ==
    /\ cmd = "transcribe"
    /\ \E k \in LogIdx :
          /\ WriteOfSynthesized(k) /\ IsWritten(k)
          /\ log[k].doc.metadata.transcription_error.error_type = "OCRError"

(***************************************************************************)
(* C11: in a batch run under --continue-on-failure no failure of a file    *)
(* aborts the batch: the process never ends with exit code 1, it ends only *)
(* after the last file of the list with exit code 0, and the artifact of   *)
(* one file is left as it is while another file is processed.  A file      *)
(* whose cycle ended has its output where a write succeeded, a placeholder *)
(* after a failed fetch or an `error` status, and no artifact at all after *)
(* a failed submit or a failed poll.                                       *)
(***************************************************************************)
BatchContinue == cmd = "transcribe" /\ batchMode /\ continueOnFailure

ArtifactOf(j) == transcribeOutputPath(batchFileList[j], NoPath, outputFormat)

\* the cycle of the file the log is about is over
CycleOver == pc \in {"start", "exited"} /\ log # << >>

FailedWrite(k) == IsWriteAttempt(k) /\ ~IsWritten(k)

\* as claimed: the file whose job failed has an artifact when its cycle is over
C11_FailingFileHasArtifact ==
    (BatchContinue /\ CycleOver /\ \A k \in LogIdx : ~FailedWrite(k)) =>
        outputPath \in DOMAIN fs

C11_Outcomes ==
    (BatchContinue /\ CycleOver) =>
        \A k \in LogIdx :
            /\ IsWritten(k) => ReadFile(fs, outputPath) = log[k].content
            /\ RoutedFailure(k) => PlaceholderFollows(k)
            /\ (UnroutedFailure(k) \/ FailedWrite(k)) => outputPath \notin DOMAIN fs

C11_Completion ==
    BatchContinue =>
        /\ ~EndedWithFailure
        /\ pc = "exited" => (i = Len(batchFileList) /\ exitCode = 0)

C11_OthersUntouched ==
    BatchContinue =>
        \A p \in DOMAIN fs : p # outputPath' => (p \in DOMAIN fs' /\ fs'[p] = fs[p])

C11_FailureNeverAborts ==
    [](C11_Completion /\ C11_Outcomes) /\ [][C11_OthersUntouched]_vars

\* the first file's job failed at the fetch and left a placeholder, the second
\* file's result was written, and the run ended normally
C11_Witness ==
    /\ BatchContinue /\ pc = "exited" /\ exitCode = 0 /\ i = 2
    /\ ArtifactOf(1) \in DOMAIN fs
    /\ IsPlaceholder(fs[ArtifactOf(1)].json, batchFileList[1])
    /\ \E k \in LogIdx : WriteOfFetched(k) /\ IsWritten(k)
    /\ ~IsPlaceholder(fs[ArtifactOf(2)].json, batchFileList[2])

(***************************************************************************)
(* C12: batch mode is strictly sequential.  Every request and response the *)
(* log holds belongs to one file (the current one, or the one just ended   *)
(* when the next has not started), every request but the last entry has    *)
(* been answered, and the loop moves to the next file, by one, only when   *)
(* the current file's cycle has ended: its log is empty (input not read),  *)
(* or ends with a write or with the response that made it fail.            *)
(***************************************************************************)
BatchTranscribe == cmd = "transcribe" /\ batchMode

\* the requests of l that have no answer yet
Outstanding(l) == {k \in 1..Len(l) : l[k].dir = "req" /\ (k = Len(l) \/ l[k + 1].dir # "resp")}

C12_OneJobAtATime ==
    BatchTranscribe =>
        /\ \A k \in LogIdx : log[k].file = (IF pc = "start" THEN i - 1 ELSE i)
        /\ Outstanding(log) \subseteq {Len(log)}
        /\ (Outstanding(log) # {}) <=> (pc \in {"wait_submit", "wait_status", "wait_result"})

C12_NextAfterCycleEnd ==
    (BatchTranscribe /\ i' # i) =>
        /\ i' = i + 1
        /\ pc' = "start"
        /\ Outstanding(log') = {}
        /\ \A k \in 1..Len(log') : log'[k].file = i

C12_StrictlySequential == []C12_OneJobAtATime /\ [][C12_NextAfterCycleEnd]_vars

\* the second file's submit request is outstanding; the first file's cycle is over
C12_Witness ==
    /\ BatchTranscribe /\ i = 2 /\ pc = "wait_submit"
    /\ Outstanding(log) = {1}
    /\ ArtifactOf(1) \in DOMAIN fs

(***************************************************************************)
(* C13: when the input documents of merge-transcriptions do not all have   *)
(* the same number of chunks in the chosen chunk group, the command ends   *)
(* with exit code 1 before any request is issued, and writes no output.    *)
(***************************************************************************)
Merging == cmd = "merge-transcriptions"

InputsParsed ==
    /\ Len(inputPaths) >= 2
    /\ \A n \in 1..Len(inputPaths) : ReadFile(fs, inputPaths[n]).kind = "json"

\* the number of chunks each input file holds in the chosen group
SourceCount(n) == Len(chunkArray(ReadFile(fs, inputPaths[n]).json, chunkGroupName))

Misaligned == \E m, n \in 1..Len(inputPaths) : SourceCount(m) # SourceCount(n)

C13_MisalignedAborts ==
    (Merging /\ pc # "start" /\ InputsParsed /\ Misaligned) =>
        /\ pc = "exited" /\ exitCode = 1
        /\ log = << >>
        /\ outputPath \notin DOMAIN fs
        /\ mergedDoc = Undefined

\* three documents, the third one page longer than the other two
C13_Witness ==
    /\ Merging /\ pc = "exited" /\ exitCode = 1
    /\ Len(inputPaths) = 3 /\ InputsParsed
    /\ SourceCount(1) = SourceCount(2) /\ SourceCount(1) > 0
    /\ SourceCount(3) = SourceCount(1) + 1
    /\ log = << >>

(***************************************************************************)
(* C14: the requests of merge-transcriptions are issued for the pages 0,   *)
(* 1, 2, ... in this order, one request per page, and each request but the *)
(* last entry of the log is directly followed by its response: the request *)
(* for the next page is issued only after the response for the page before.*)
(***************************************************************************)
C14_PagesInOrder ==
    Merging =>
      /\ pc = "wait_merge" => (log # << >> /\ IsRequest(Len(log), "merge"))
      /\ \A k \in LogIdx :
            /\ IsRequest(k, "merge") =>
                   /\ k % 2 = 1
                   /\ log[k].page = (k - 1) \div 2
                   /\ log[k].page < SourceCount(1)
                   /\ k < Len(log) => (IsResponse(k + 1, "merge") /\ log[k + 1].page = log[k].page)
                   /\ k = Len(log) => pc = "wait_merge"
            /\ IsResponse(k, "merge") => (k > 1 /\ IsRequest(k - 1, "merge"))

\* two pages merged one after the other, and the result written
C14_Witness ==
    /\ Merging /\ pc = "exited" /\ exitCode = 0
    /\ Len(log) = 5
    /\ IsRequest(1, "merge") /\ log[1].page = 0
    /\ IsRequest(3, "merge") /\ log[3].page = 1
    /\ IsWritten(5)

(***************************************************************************)
(* C15: a failure while merging a page (transport exception, non-OK HTTP   *)
(* response, unparsable body, no assistant message) ends the command with  *)
(* exit code 1 and no output; the output is written only after every page  *)
(* got an answer with an assistant message, and holds one chunk per page.  *)
(***************************************************************************)
HasAssistantMessage(r) ==
    /\ r.net /\ ok(r) /\ r.json # InvalidJson /\ r.json # JsonNull
    /\ Has(r.json, "messages")
    /\ \E n \in 1..Len(r.json.messages) : r.json.messages[n].role = "assistant"

MergedPages == {k \in LogIdx : IsResponse(k, "merge") /\ HasAssistantMessage(log[k].resp)}

C15_PageFailureAborts ==
    Merging =>
        \A k \in LogIdx :
            /\ (IsResponse(k, "merge") /\ ~HasAssistantMessage(log[k].resp)) =>
                   /\ pc = "exited" /\ exitCode = 1
                   /\ k = Len(log)
                   /\ outputPath \notin DOMAIN fs
            /\ IsWriteAttempt(k) =>
                   /\ Cardinality(MergedPages) = SourceCount(1)
                   /\ Len(log[k].doc.chunks[chunkGroupName]) = SourceCount(1)
                   /\ \A j \in 1..(k - 1) : IsResponse(j, "merge") => HasAssistantMessage(log[j].resp)

\* the first page was merged, the second page's answer has no assistant message
C15_Witness ==
    /\ Merging /\ pc = "exited" /\ exitCode = 1
    /\ Len(log) = 4
    /\ HasAssistantMessage(log[2].resp)
    /\ log[4].resp.net /\ ok(log[4].resp) /\ ~HasAssistantMessage(log[4].resp)
    /\ outputPath \notin DOMAIN fs

(***************************************************************************)
(* C16: when the sources disagree on a metadata key (of the documents, or  *)
(* of the chunks of one page), the merged metadata holds the first         *)
(* source's value under that key (no key when the first source has none),  *)
(* and a key `{key}_conflicts` whose value lists, as `ALT: value`, every   *)
(* value that differs from the first source's; with two sources the value  *)
(* is exactly `ALT: ` followed by the second source's value.               *)
(***************************************************************************)
SourceKeys == {"page_number", "revision"}

InputDoc(n) == ReadFile(fs, inputPaths[n]).json

DocHolders == [n \in 1..Len(inputPaths) |-> InputDoc(n)]

\* the chunks the sources hold for the q-th page
PageHolders(q) == [n \in 1..Len(inputPaths) |-> chunkArray(InputDoc(n), chunkGroupName)[q]]

SourceValues(holders, key) == [n \in 1..Len(holders) |-> metadataValue(holders[n], key)]

Disagree(holders, key) ==
    \E n \in 1..Len(holders) : SourceValues(holders, key)[n] # SourceValues(holders, key)[1]

Agree(holders, key) ==
    \A n \in 1..Len(holders) :
        /\ SourceValues(holders, key)[n].defined
        /\ SourceValues(holders, key)[n] = SourceValues(holders, key)[1]

FirstKept(md, holders, key) ==
    IF SourceValues(holders, key)[1].defined
    THEN Has(md, key) /\ md[key] = SourceValues(holders, key)[1].value
    ELSE ~Has(md, key)

\* the positions of the items of a conflicts value, and the values listed
AltPositions(value) == {j \in 1..(Len(value) - 1) : value[j] = "ALT: "}
AltItems(value) == {value[j + 1] : j \in AltPositions(value)}

ConflictTagged(md, holders) ==
    \A key \in SourceKeys :
        Disagree(holders, key) =>
            /\ FirstKept(md, holders, key)
            /\ Has(md, conflictsKey(key))
            /\ \A n \in 2..Len(holders) :
                   SourceValues(holders, key)[n] # SourceValues(holders, key)[1] =>
                       stringify(SourceValues(holders, key)[n]) \in AltItems(md[conflictsKey(key)])
            /\ Len(holders) = 2 =>
                   md[conflictsKey(key)] = <<"ALT: ", stringify(SourceValues(holders, key)[2])>>

\* the chunks merged so far
MergedChunks == IF mergedDoc = Undefined THEN << >> ELSE mergedDoc.chunks[chunkGroupName]

C16_ConflictTagging ==
    (Merging /\ mergedDoc # Undefined) =>
        /\ ConflictTagged(mergedDoc.metadata, DocHolders)
        /\ \A q \in 1..Len(MergedChunks) : ConflictTagged(MergedChunks[q].metadata, PageHolders(q))

\* two documents whose first pages say page 5 and page 7, merged and written
C16_Witness ==
    /\ Merging /\ pc = "exited" /\ exitCode = 0
    /\ Len(inputPaths) = 2 /\ Len(MergedChunks) >= 1
    /\ metadataValue(PageHolders(1)[1], "page_number") = [defined |-> TRUE, value |-> 5]
    /\ metadataValue(PageHolders(1)[2], "page_number") = [defined |-> TRUE, value |-> 7]
    /\ MergedChunks[1].metadata.page_number = 5
    /\ MergedChunks[1].metadata.page_number_conflicts = <<"ALT: ", "7">>
    /\ ReadFile(fs, outputPath) = JsonFile(mergedDoc)

(***************************************************************************)
(* C17: with three or more sources that disagree on a metadata key, the    *)
(* `{key}_conflicts` value lists each distinct value of the other sources  *)
(* once, and never the first source's value, in the merged document        *)
(* written.                                                                *)
(***************************************************************************)
DistinctOthers(holders, key) ==
    { stringify(SourceValues(holders, key)[n]) :
        n \in {m \in 2..Len(holders) : SourceValues(holders, key)[m] # SourceValues(holders, key)[1]} }

DistinctListed(md, holders) ==
    \A key \in SourceKeys :
        (Len(holders) >= 3 /\ Disagree(holders, key)) =>
            /\ Has(md, conflictsKey(key))
            /\ AltItems(md[conflictsKey(key)]) = DistinctOthers(holders, key)
            /\ Cardinality(AltPositions(md[conflictsKey(key)])) = Cardinality(DistinctOthers(holders, key))

C17_DistinctValuesOnce ==
    (Merging /\ mergedDoc # Undefined /\ ReadFile(fs, outputPath) = JsonFile(mergedDoc)) =>
        /\ DistinctListed(mergedDoc.metadata, DocHolders)
        /\ \A q \in 1..Len(MergedChunks) : DistinctListed(MergedChunks[q].metadata, PageHolders(q))

(***************************************************************************)
(* C18: when all merged documents (or all chunks of a page) hold the same  *)
(* value for a metadata key, the merged metadata holds that value under    *)
(* the key and has no `{key}_conflicts` key.                               *)
(***************************************************************************)
AgreementCollapsed(md, holders) ==
    \A key \in SourceKeys :
        Agree(holders, key) =>
            /\ Has(md, key)
            /\ md[key] = SourceValues(holders, key)[1].value
            /\ ~Has(md, conflictsKey(key))

C18_AgreementCollapse ==
    (Merging /\ mergedDoc # Undefined) =>
        /\ AgreementCollapsed(mergedDoc.metadata, DocHolders)
        /\ \A q \in 1..Len(MergedChunks) : AgreementCollapsed(MergedChunks[q].metadata, PageHolders(q))

\* three documents whose first pages all say page 5, merged and written
C18_Witness ==
    /\ Merging /\ pc = "exited" /\ exitCode = 0
    /\ Len(inputPaths) = 3 /\ Len(MergedChunks) >= 1
    /\ Agree(PageHolders(1), "page_number")
    /\ MergedChunks[1].metadata = [page_number |-> 5]
    /\ ReadFile(fs, outputPath) = JsonFile(mergedDoc)

(***************************************************************************)
(* C19: every document merge-transcriptions writes has content_chunk_group *)
(* equal to the chunk-group name of the merge (--chunk-group, or `pages`), *)
(* and its `chunks` has that name as its one key, holding one chunk per    *)
(* page of the sources.                                                    *)
(***************************************************************************)
C19_ContentChunkGroup ==
    Merging =>
        \A k \in LogIdx :
            IsWriteAttempt(k) =>
                /\ log[k].doc = mergedDoc
                /\ log[k].content = JsonFile(mergedDoc)
                /\ mergedDoc.content_chunk_group = chunkGroupName
                /\ DOMAIN mergedDoc.chunks = {chunkGroupName}
                /\ Len(mergedDoc.chunks[chunkGroupName]) = SourceCount(1)
                /\ IsWritten(k) => ReadFile(fs, outputPath) = JsonFile(mergedDoc)

\* a merge over the group `raw`, written
C19_Witness ==
    /\ Merging /\ pc = "exited" /\ exitCode = 0
    /\ chunkGroupName = "raw"
    /\ ReadFile(fs, outputPath) = JsonFile(mergedDoc)
    /\ Len(mergedDoc.chunks.raw) = 1

(***************************************************************************)
(* C20: the id of a document the commands produce is derived from its      *)
(* source, not from its own content.  A synthesized placeholder's id is    *)
(* the SHA-256 digest of the input file's bytes, so placeholders for       *)
(* identical bytes carry the same id; a merged document's id is `merged-`  *)
(* followed by the first source's id (`doc` when it has none), and its     *)
(* chunks are named after it and their index; the document that chunk      *)
(* writes keeps the id of the document it read.                            *)
(***************************************************************************)
Synthesized(doc) ==
    /\ Truthy(doc)
    /\ Has(doc, "metadata")
    /\ Has(doc.metadata, "transcription_status")
    /\ doc.metadata.transcription_status = "failed"

\* the placeholders among the files
SynthesizedFiles == {p \in DOMAIN fs : fs[p].kind = "json" /\ Synthesized(fs[p].json)}

\* as claimed: two placeholders that differ carry different ids
C20_IdsNeverReused ==
    cmd = "transcribe" =>
        \A p, q \in SynthesizedFiles : fs[p].json # fs[q].json => fs[p].json.id # fs[q].json.id

InputBytes(j) == ReadFile(fs, batchFileList[j]).bytes

C20_IdsFollowSource ==
    /\ cmd = "transcribe" =>
          /\ \A k \in LogIdx :
                 (WriteOfSynthesized(k) /\ Synthesized(log[k].doc)) =>
                     log[k].doc.id = sha256hex(InputBytes(log[k].file))
          /\ batchMode =>
                 \A m, n \in 1..Len(batchFileList) :
                     ({ArtifactOf(m), ArtifactOf(n)} \subseteq SynthesizedFiles
                        /\ InputBytes(m) = InputBytes(n)) =>
                         fs[ArtifactOf(m)].json.id = fs[ArtifactOf(n)].json.id
    /\ (Merging /\ mergedDoc # Undefined) =>
          /\ mergedDoc.id = <<"merged-", IF Has(InputDoc(1), "id") THEN InputDoc(1).id ELSE "doc">>
          /\ \A q \in 1..Len(MergedChunks) :
                 /\ MergedChunks[q].parent = mergedDoc.id
                 /\ MergedChunks[q].id = mergedDoc.id \o <<"/", chunkGroupName, "@", ToString(q - 1)>>
    /\ cmd = "chunk" =>
          \A k \in LogIdx : IsWriteAttempt(k) => log[k].doc.id = docObj.id

\* a batch run that left two placeholders, for two files holding the same bytes
C20_Witness ==
    /\ BatchContinue /\ pc = "exited" /\ Len(batchFileList) = 2
    /\ {ArtifactOf(1), ArtifactOf(2)} \subseteq SynthesizedFiles
    /\ InputBytes(1) = InputBytes(2)
    /\ fs[ArtifactOf(1)].json.id = sha256hex(InputBytes(1))
    /\ fs[ArtifactOf(1)].json # fs[ArtifactOf(2)].json

(***************************************************************************)
(* C21: in every chunk group a command builds (the output group of chunk,  *)
(* the merged group, the `pages` group of a placeholder) the chunk at      *)
(* position i has the id `{documentId}/{groupName}@{i}` and the parent     *)
(* documentId, the id of the document written; positions count from 0, so  *)
(* the ids of a group are pairwise distinct.                               *)
(***************************************************************************)
\* the pieces of an id, with the literal `/pages@` taken apart
RECURSIVE IdPieces(_)
IdPieces(id) ==
    IF id = << >> THEN << >>
    ELSE (IF Head(id) = "/pages@" THEN <<"/", "pages", "@">> ELSE <<Head(id)>>) \o IdPieces(Tail(id))

\* group: the chunks;  idPieces: the document's id in pieces;  parent: its id
GroupWellFormed(group, idPieces, parent, name) ==
    /\ \A q \in 1..Len(group) :
           /\ IdPieces(group[q].id) = idPieces \o <<"/", name, "@", ToString(q - 1)>>
           /\ group[q].parent = parent
    /\ \A q, r \in 1..Len(group) : q # r => group[q].id # group[r].id

C21_ChunkIdsEncodeLineage ==
    \A k \in LogIdx :
        IsWriteAttempt(k) =>
            /\ cmd = "chunk" =>
                   GroupWellFormed(log[k].doc.chunks[outputChunkGroupName],
                                   <<log[k].doc.id>>, log[k].doc.id, outputChunkGroupName)
            /\ Merging =>
                   GroupWellFormed(log[k].doc.chunks[chunkGroupName],
                                   log[k].doc.id, log[k].doc.id, chunkGroupName)
            /\ (cmd \in {"transcribe", "transcribe-monolith"} /\ Synthesized(log[k].doc)) =>
                   /\ Len(log[k].doc.chunks.pages) = 1
                   /\ GroupWellFormed(log[k].doc.chunks.pages,
                                      <<log[k].doc.id>>, log[k].doc.id, "pages")

\* chunk wrote a document whose new group holds two chunks
C21_Witness ==
    /\ cmd = "chunk" /\ pc = "exited" /\ exitCode = 0
    /\ \E k \in LogIdx :
          /\ IsWritten(k)
          /\ Len(log[k].doc.chunks[outputChunkGroupName]) = 2
          /\ log[k].doc.chunks[outputChunkGroupName][2].id =
                 <<docObj.id, "/", outputChunkGroupName, "@", "1">>

(***************************************************************************)
(* C22: a command that was not asked to work in place never writes over    *)
(* one of its input files: without --inline, every write of chunk,         *)
(* summarize, transcribe and merge-transcriptions goes to a path that is   *)
(* not the path of an input.                                               *)
(***************************************************************************)
InputPathSet == {batchFileList[n] : n \in 1..Len(batchFileList)}

C22_NeverWritesOverInput ==
    ~inline => \A k \in LogIdx : IsWritten(k) => log[k].path \notin InputPathSet

(***************************************************************************)
(* C23: no request is retried.  The log of a job holds at most one submit  *)
(* request and at most one result request, the log of a merge at most one  *)
(* request per page, and no request follows a failed answer: a submit      *)
(* answer without job id, a status answer that cannot be read or reports   *)
(* `error`, any answer to the result request, a page answer without        *)
(* assistant message.                                                      *)
(***************************************************************************)
RequestsOf(ev) == {k \in LogIdx : IsRequest(k, ev)}

FailedAnswer(k) ==
    \/ IsResponse(k, "submit") /\ SubmitFailure(log[k].resp)
    \/ IsResponse(k, "status") /\ (PollFailure(log[k].resp) \/ ErrorStatus(log[k].resp))
    \/ IsResponse(k, "result")
    \/ IsResponse(k, "merge") /\ ~HasAssistantMessage(log[k].resp)

C23_NoRetry ==
    /\ Cardinality(RequestsOf("submit")) <= 1
    /\ Cardinality(RequestsOf("result")) <= 1
    /\ \A k, j \in RequestsOf("merge") : log[k].page = log[j].page => k = j
    /\ \A k \in LogIdx : FailedAnswer(k) => \A j \in (k + 1)..Len(log) : log[j].dir # "req"

\* the second poll of a job failed and the run ended there
C23_Witness ==
    /\ cmd = "transcribe" /\ ~continueOnFailure /\ pc = "exited" /\ exitCode = 1
    /\ Cardinality(RequestsOf("status")) = 2
    /\ Len(log) >= 1 /\ IsResponse(Len(log), "status") /\ PollFailure(log[Len(log)].resp)

(***************************************************************************)
(* C24: the poll loop of transcribe, chunk and summarize sleeps one fixed  *)
(* interval.  Every status request, the first included, directly follows   *)
(* exactly one sleep; every sleep lasts the configured poll interval; a    *)
(* readable status answer that is neither `complete` nor `error` is        *)
(* followed by the next sleep whatever other fields it carries; and after  *)
(* a `complete` or `error` answer there is no further sleep and no further *)
(* status request.                                                         *)
(***************************************************************************)
Readable(r) == r.net /\ ok(r) /\ r.json # InvalidJson /\ r.json # JsonNull

TerminalStatus(r) ==
    Readable(r) /\ Has(r.json, "status") /\ r.json.status \in {"complete", "error"}

PendingStatus(r) == Readable(r) /\ ~TerminalStatus(r)

C24_FixedIntervalPolling ==
    \A k \in LogIdx :
        /\ IsRequest(k, "status") =>
               /\ k > 2
               /\ log[k - 1].dir = "sleep"
               /\ log[k - 2].dir = "resp"
        /\ log[k].dir = "sleep" =>
               /\ log[k].secs = pollInterval
               /\ k > 1
               /\ \/ IsResponse(k - 1, "submit") /\ GaveJobId(log[k - 1].resp)
                  \/ IsResponse(k - 1, "status") /\ PendingStatus(log[k - 1].resp)
               /\ k < Len(log) => IsRequest(k + 1, "status")
        /\ (IsResponse(k, "status") /\ PendingStatus(log[k].resp)) =>
               (k < Len(log) /\ log[k + 1].dir = "sleep")
        /\ (IsResponse(k, "status") /\ TerminalStatus(log[k].resp)) =>
               \A j \in (k + 1)..Len(log) : log[j].dir # "sleep" /\ ~IsRequest(j, "status")

\* two polls with --poll-interval 5: a pending answer with progress fields, then `complete`
C24_Witness ==
    /\ cmd \in {"transcribe", "chunk", "summarize"}
    /\ pollInterval # DefaultPollInterval
    /\ Cardinality({k \in LogIdx : log[k].dir = "sleep" /\ log[k].secs = pollInterval}) = 2
    /\ \E k \in LogIdx :
          /\ IsResponse(k, "status") /\ PendingStatus(log[k].resp)
          /\ Has(log[k].resp.json, "pages_converted")
    /\ \E k \in LogIdx :
          /\ IsResponse(k, "status") /\ TerminalStatus(log[k].resp)
          /\ log[k].resp.json.status = "complete"

(***************************************************************************)
(* C25: convert-server-config never replaces an existing local config      *)
(* without asking.  A step of the command changes an existing              *)
(* ~/.config/charm/config.json only after the user answered `y` (in either *)
(* case, spaces around it ignored); after such an answer the new config is *)
(* written; after any other answer the file is as it was and the exit code *)
(* is 0; while the answer is awaited the file is as it was.                *)
(***************************************************************************)
Configuring == cmd = "convert-server-config"

\* the answers that mean yes: one `y` or `Y`, and white space around it
IsYes(answer) ==
    \E n \in 1..Len(answer) :
        /\ answer[n] \in {"y", "Y"}
        /\ \A m \in 1..Len(answer) : m # n => answer[m] \in {" ", "\t", "\n"}

IsAnswer(k) == log[k].dir = "resp" /\ log[k].ev = "prompt"

C25_Asked ==
    Configuring =>
        /\ pc = "wait_answer" => ReadFile(fs, localPath) = JsonFile(OldLocalConf)
        /\ \A k \in LogIdx :
               /\ (IsAnswer(k) /\ ~IsYes(log[k].answer)) =>
                      /\ pc = "exited" /\ exitCode = 0
                      /\ k = Len(log)
                      /\ ReadFile(fs, localPath) = JsonFile(OldLocalConf)
               /\ (IsAnswer(k) /\ IsYes(log[k].answer)) =>
                      /\ k + 1 = Len(log) /\ IsWriteAttempt(k + 1)
                      /\ log[k + 1].path = localPath
                      /\ log[k + 1].doc.hostname = "localhost"
                      /\ IsWritten(k + 1) => ReadFile(fs, localPath) = log[k + 1].content

C25_ReplacedOnlyOnYes ==
    (Configuring /\ localPath \in DOMAIN fs /\ fs' # fs) =>
        /\ Len(log') >= 2
        /\ log'[Len(log') - 1].dir = "resp" /\ log'[Len(log') - 1].ev = "prompt"
        /\ IsYes(log'[Len(log') - 1].answer)

C25_NoOverwriteWithoutYes == []C25_Asked /\ [][C25_ReplacedOnlyOnYes]_vars

\* the existing config was kept after the answer `yes`
C25_Witness ==
    /\ Configuring /\ pc = "exited" /\ exitCode = 0
    /\ Len(log) = 2 /\ IsAnswer(2) /\ log[2].answer = <<"y", "e", "s">>
    /\ ReadFile(fs, localPath) = JsonFile(OldLocalConf)

(***************************************************************************)
(* C26: metadata reconciliation is one function at both levels.  Applied   *)
(* to the same list of sources, the document-level merge and the           *)
(* page-level merge give the same mapping, and each gives, for every key   *)
(* some source holds, the key or its `_conflicts` companion.               *)
(***************************************************************************)
Covers(result) ==
    \A n \in 1..Len(result.sources) :
        Has(result.sources[n], "metadata") =>
            \A key \in DOMAIN result.sources[n].metadata :
                Has(result.merged, key) \/ Has(result.merged, conflictsKey(key))

C26_SameAtBothLevels ==
    /\ metaDoc # Undefined => Covers(metaDoc)
    /\ metaPage # Undefined => Covers(metaPage)
    /\ (metaDoc # Undefined /\ metaPage # Undefined /\ metaDoc.sources = metaPage.sources) =>
           metaDoc.merged = metaPage.merged

\* both merges applied to three sources that disagree on page_number
C26_Witness ==
    /\ metaDoc # Undefined /\ metaPage # Undefined
    /\ metaDoc.sources = metaPage.sources
    /\ Len(metaDoc.sources) = 3
    /\ Has(metaDoc.merged, "page_number_conflicts")
    /\ Has(metaPage.merged, "page_number_conflicts")

(***************************************************************************)
(* C27: every job-driven command leaves its poll loop on the status        *)
(* `error`: once a status answer carried `error`, the command neither      *)
(* sleeps nor asks for the status again, and it does not go on to the      *)
(* result.  transcribe, chunk and summarize do so; the poll loop of        *)
(* convert tests `failed` instead, takes `error` for a job in progress     *)
(* and keeps polling.                                                      *)
(***************************************************************************)
ErrorAnswers == {k \in LogIdx : IsResponse(k, "status") /\ ErrorStatus(log[k].resp)}

C27_LeavesLoopOnError ==
    \A k \in ErrorAnswers :
        /\ \A m \in LogIdx : m > k => log[m].dir # "sleep" /\ log[m].dir # "req"
        /\ pc \notin {"sleeping", "wait_status", "wait_result"}

(***************************************************************************)
(* C28: after polling, transcribeSingleFile takes one of two branches.     *)
(* The result request is issued only directly after a status answer        *)
(* `complete`; a synthesized document is handed to the write only under    *)
(* --continue-on-failure and only directly after an `error` status answer  *)
(* or a failed result fetch (non-2xx, 202, or an exception); and once a    *)
(* status answer carried `error`, no result request is issued, with or     *)
(* without --continue-on-failure.                                          *)
(***************************************************************************)
CompleteStatus(r) == Readable(r) /\ Has(r.json, "status") /\ r.json.status = "complete"

FailedFetch(r) == HttpFailure(r) \/ Premature202(r) \/ FetchException(r)

C28_OneOfTwoBranches ==
    cmd = "transcribe" =>
        \A k \in LogIdx :
            /\ IsRequest(k, "result") =>
                   /\ k > 1
                   /\ IsResponse(k - 1, "status") /\ CompleteStatus(log[k - 1].resp)
            /\ WriteOfSynthesized(k) =>
                   /\ continueOnFailure
                   /\ \/ IsResponse(k - 1, "status") /\ ErrorStatus(log[k - 1].resp)
                      \/ IsResponse(k - 1, "result") /\ FailedFetch(log[k - 1].resp)
            /\ (IsResponse(k, "status") /\ ErrorStatus(log[k].resp)) =>
                   \A m \in LogIdx : ~IsRequest(m, "result")

C28_Witness ==
    /\ cmd = "transcribe" /\ continueOnFailure
    /\ polls >= 1
    /\ \E k \in LogIdx :
          /\ k < Len(log)
          /\ IsResponse(k, "status") /\ ErrorStatus(log[k].resp)
          /\ WriteOfSynthesized(k + 1) /\ IsWritten(k + 1)

(***************************************************************************)
(* C29: chunk --inline writes the input document with only                 *)
(* chunks[outputChunkGroupName] replaced: every other top-level field (id, *)
(* content, metadata) and every other chunk group is in the written        *)
(* document exactly when it is in the input, with the same value; the new  *)
(* group is there; and the file is written at most once, in one call that  *)
(* directly follows the answer to the result request.                      *)
(***************************************************************************)
GroupsOf(doc) == IF Has(doc, "chunks") THEN DOMAIN doc.chunks ELSE {}

SameButGroup(written, input) ==
    /\ DOMAIN written = DOMAIN input \cup {"chunks"}
    /\ \A f \in DOMAIN input \ {"chunks"} : written[f] = input[f]
    /\ DOMAIN written.chunks = GroupsOf(input) \cup {outputChunkGroupName}
    /\ \A g \in GroupsOf(input) \ {outputChunkGroupName} : written.chunks[g] = input.chunks[g]

C29_InlineReplacesOneGroup ==
    (cmd = "chunk" /\ inline) =>
        /\ Cardinality({k \in LogIdx : IsWriteAttempt(k)}) <= 1
        /\ \A k \in LogIdx : IsWriteAttempt(k) =>
               /\ k > 1 /\ IsResponse(k - 1, "result")
               /\ log[k].path = outputPath
               /\ log[k].content = JsonFile(log[k].doc)
               /\ SameButGroup(log[k].doc, docObj)
               /\ IsWritten(k) => ReadFile(fs, outputPath) = JsonFile(log[k].doc)
        /\ (\A k \in LogIdx : ~IsWritten(k)) =>
               \A path \in DOMAIN fs : path = inputFile /\ (docObj # Undefined => fs[path] = JsonFile(docObj))

C29_Witness ==
    /\ cmd = "chunk" /\ inline /\ outputFlag = NoPath
    /\ docObj = GoodDoc
    /\ \E k \in LogIdx :
          /\ IsWritten(k)
          /\ Len(log[k].doc.chunks[outputChunkGroupName]) = 2
          /\ ReadFile(fs, inputFile) = JsonFile(log[k].doc)

(***************************************************************************)
(* C30: batch transcribe without --continue-on-failure stops at the first  *)
(* failing file.  When a file's cycle ends without a written output the    *)
(* process has exited with code 1, the log holds entries of that file      *)
(* only, and nothing is at that file's output path; the outputs of the     *)
(* files before it are there and no later file has one.  The failing step  *)
(* leaves the file system and the loop index as they were, and no step is  *)
(* taken once the process has exited: no later file is ever requested.     *)
(***************************************************************************)
StrictBatch == BatchTranscribe /\ ~continueOnFailure

CycleFailed == CycleOver /\ \A k \in LogIdx : ~IsWritten(k)

C30_StoppedAtFailure ==
    StrictBatch =>
        /\ CycleFailed =>
               /\ EndedWithFailure
               /\ \A k \in LogIdx : log[k].file = i
               /\ ArtifactOf(i) \notin DOMAIN fs
        /\ EndedWithFailure => \A j \in 1..(i - 1) : ReadFile(fs, ArtifactOf(j)).kind = "json"
        /\ \A j \in (i + 1)..Len(batchFileList) : ArtifactOf(j) \notin DOMAIN fs

C30_FailingStep ==
    StrictBatch =>
        /\ pc # "exited"
        /\ (pc' = "exited" /\ exitCode' = 1) => (fs' = fs /\ i' = i)

C30_StrictBatchStopsAtFirstFailure == []C30_StoppedAtFailure /\ [][C30_FailingStep]_vars

\* the first of two files failed on an `error` status: the second was never started
C30_Witness ==
    /\ StrictBatch /\ Len(batchFileList) = 2 /\ i = 1
    /\ EndedWithFailure
    /\ \E k \in LogIdx : IsResponse(k, "status") /\ ErrorStatus(log[k].resp)
    /\ DOMAIN fs = {batchFileList[1], batchFileList[2]}

(***************************************************************************)
(* C31: against a server that ends the job and a disk that takes the       *)
(* write, transcribe terminates, and it ends as the terminal status says:  *)
(* after `complete` the fetched document is at the output path and the     *)
(* exit code is 0, with or without --continue-on-failure; after `error`    *)
(* the process has exited with code 1 and wrote nothing in strict mode,    *)
(* and has written a placeholder and exited with code 0 under              *)
(* --continue-on-failure.                                                  *)
(***************************************************************************)
SawComplete == \E k \in LogIdx : IsResponse(k, "status") /\ CompleteStatus(log[k].resp)

SawError == \E k \in LogIdx : IsResponse(k, "status") /\ ErrorStatus(log[k].resp)

OutputIs(k) == IsWritten(k) /\ ReadFile(fs, outputPath) = log[k].content

LiveOutcome ==
    /\ pc = "exited"
    /\ SawComplete =>
           /\ exitCode = 0
           /\ \E k \in LogIdx : WriteOfFetched(k) /\ OutputIs(k)
    /\ SawError =>
           IF continueOnFailure
           THEN /\ exitCode = 0
                /\ \E k \in LogIdx : IsPlaceholder(log[k].doc, inputFile) /\ OutputIs(k)
           ELSE /\ exitCode = 1
                /\ NothingWritten

C31_EventuallyDone == <>[]LiveOutcome

C31_Witness ==
    /\ cmd = "transcribe" /\ ~continueOnFailure
    /\ polls >= 1
    /\ SawComplete
    /\ LiveOutcome

(***************************************************************************)
(* C32: the poll loop of transcribe, chunk and summarize has no bound of   *)
(* its own.  As long as every status answer received was readable and      *)
(* carried a status other than `error` and `complete` (`processing`,       *)
(* `failed`, `completed`), the command is still polling: it has not        *)
(* exited, it is asleep or waits for the next status answer, it issued no  *)
(* result request and wrote nothing, and it slept once more than it got    *)
(* such answers, one round per answer.                                     *)
(***************************************************************************)
StatusAnswers == {k \in LogIdx : IsResponse(k, "status")}

OnlyPendingAnswers ==
    /\ StatusAnswers # {}
    /\ \A k \in StatusAnswers : PendingStatus(log[k].resp)

C32_PendingKeepsPolling ==
    (cmd \in {"transcribe", "chunk", "summarize"} /\ OnlyPendingAnswers) =>
        /\ pc \in {"sleeping", "wait_status"}
        /\ exitCode = -1
        /\ NothingWritten
        /\ finalDoc = Undefined
        /\ \A k \in LogIdx : ~IsRequest(k, "result")
        /\ polls = Cardinality(StatusAnswers)
        /\ Cardinality({k \in LogIdx : log[k].dir = "sleep"}) = Cardinality(StatusAnswers) + 1

\* the loop went as many rounds as the server answered `failed` or `completed`
C32_Witness ==
    /\ cmd = "summarize"
    /\ OnlyPendingAnswers
    /\ Cardinality(StatusAnswers) = MaxPolls
    /\ \A k \in StatusAnswers : log[k].resp.json.status \in {"failed", "completed"}
    /\ pc = "wait_status"

(***************************************************************************)
(* C33: transcribe --batch --continue-on-failure attempts every file of    *)
(* the list exactly once, in list order, and finishes normally.  The loop  *)
(* index moves by one at a time and only forward; a file's cycle is        *)
(* started only when the index has just moved to it (or at the very        *)
(* beginning), so no file is started twice; the step taken from the start  *)
(* of a cycle is an attempt at the file the index names; the process exits *)
(* only from the last file's cycle and only with code 0; and every run     *)
(* does reach that exit, whatever failed on the way.                       *)
(***************************************************************************)
C33_InOrderOnce ==
    BatchContinue =>
        /\ i' \in {i, i + 1}
        /\ i' = i + 1 => (i < Len(batchFileList) /\ pc' = "start")
        /\ pc' = "start" => i' = i + 1
        /\ pc = "start" =>
               \/ log' = << >>
               \/ /\ IsRequest(1, "submit")' /\ log'[1].file = i /\ Len(log') = 1
                  /\ pc' = "wait_submit" /\ i' = i
        /\ pc' = "exited" => (i = Len(batchFileList) /\ exitCode' = 0)

BatchDone == pc = "exited" /\ exitCode = 0 /\ i = Len(batchFileList)

C33_EveryFileOnceThenDone == [][C33_InOrderOnce]_vars /\ <>[]BatchDone

\* both files failed (nothing was written for either) and the command ended normally
C33_Witness ==
    /\ BatchContinue /\ Len(batchFileList) = 2
    /\ BatchDone
    /\ ArtifactOf(1) \notin DOMAIN fs /\ ArtifactOf(2) \notin DOMAIN fs
    /\ log # << >> /\ log[Len(log)].file = 2

(***************************************************************************)
(* C34: for each input file transcribe writes its output at most once and  *)
(* only when the job cycle is over.  The log of a file holds at most one   *)
(* call of the write, as its last entry, directly after the answer that    *)
(* ended the cycle: a result answer whose body is then the document        *)
(* written, or an answer after which a placeholder for this file was       *)
(* synthesized.  The file holds that document and nothing else: its JSON,  *)
(* or its Markdown rendering with --output-format md.  Before and during   *)
(* polling nothing is at the output path, and a step changes the file      *)
(* system only at the output path and only by ending the cycle.            *)
(***************************************************************************)
InCycle == pc \in {"wait_submit", "sleeping", "wait_status", "wait_result"}

C34_WriteEndsCycle ==
    cmd = "transcribe" =>
        /\ Cardinality({k \in LogIdx : IsWriteAttempt(k)}) <= 1
        /\ InCycle => (NothingWritten /\ outputPath \notin DOMAIN fs)
        /\ \A k \in LogIdx : IsWriteAttempt(k) =>
               /\ k = Len(log) /\ ~InCycle
               /\ log[k].path = outputPath
               /\ log[k].doc = finalDoc
               /\ \/ WriteOfFetched(k) /\ log[k].doc = log[k - 1].resp.json
                  \/ WriteOfSynthesized(k) /\ IsPlaceholder(log[k].doc, batchFileList[log[k].file])
               /\ log[k].content =
                      IF outputFormat = "md" THEN MarkdownFile(convertDocToMarkdown(log[k].doc))
                      ELSE JsonFile(log[k].doc)
               /\ IF IsWritten(k) THEN ReadFile(fs, outputPath) = log[k].content
                  ELSE outputPath \notin DOMAIN fs

C34_WriteStep ==
    (cmd = "transcribe" /\ fs' # fs) =>
        /\ InCycle /\ ~InCycle'
        /\ IsWritten(Len(log))'
        /\ \A p \in DOMAIN fs : p # outputPath => (p \in DOMAIN fs' /\ fs'[p] = fs[p])
        /\ DOMAIN fs' = DOMAIN fs \cup {outputPath}

C34_OneWriteAfterCycle == []C34_WriteEndsCycle /\ [][C34_WriteStep]_vars

\* a Markdown output written after two polls and a successful fetch
C34_Witness ==
    /\ cmd = "transcribe" /\ outputFormat = "md"
    /\ polls >= 1
    /\ \E k \in LogIdx :
          /\ IsWritten(k) /\ WriteOfFetched(k)
          /\ log[k].doc = GoodDoc
          /\ ReadFile(fs, outputPath) = MarkdownFile(convertDocToMarkdown(GoodDoc))

(***************************************************************************)
(* C35: in the merged document written, at document level and in every    *)
(* merged chunk, a `{key}_conflicts` entry comes with the canonical        *)
(* `{key}` entry.  The merge takes the first source's value for the        *)
(* canonical entry; when the first source lacks the key that value is      *)
(* undefined, JSON.stringify leaves the entry out, and the                 *)
(* `{key}_conflicts` entry is written alone.                               *)
(***************************************************************************)
CanonicalPresent(md) ==
    \A key \in SourceKeys : Has(md, conflictsKey(key)) => Has(md, key)

C35_ConflictsComeWithCanonical ==
    (Merging /\ mergedDoc # Undefined /\ ReadFile(fs, outputPath) = JsonFile(mergedDoc)) =>
        /\ CanonicalPresent(mergedDoc.metadata)
        /\ \A q \in 1..Len(MergedChunks) : CanonicalPresent(MergedChunks[q].metadata)

(***************************************************************************)
(* C36: a merge-transcriptions run that ends with exit code 0 issued       *)
(* exactly k reconciliation requests, k being the number of chunks every   *)
(* input holds in the chosen group, and wrote a document whose group has   *)
(* exactly k chunks.  An input without the group (or without `chunks`)     *)
(* counts as holding 0 chunks: when no input has any chunk in the group,   *)
(* the run issues no request and writes a merged document with an empty    *)
(* group; it fails only if that write fails.                               *)
(***************************************************************************)
CommonCount == SourceCount(1)

NoChunksAnywhere == \A n \in 1..Len(inputPaths) : SourceCount(n) = 0

C36_RequestsAndChunksMatchCount ==
    (Merging /\ pc = "exited" /\ InputsParsed) =>
        /\ exitCode = 0 =>
               /\ ~Misaligned
               /\ Cardinality(RequestsOf("merge")) = CommonCount
               /\ ReadFile(fs, outputPath) = JsonFile(mergedDoc)
               /\ DOMAIN mergedDoc.chunks = {chunkGroupName}
               /\ Len(mergedDoc.chunks[chunkGroupName]) = CommonCount
        /\ NoChunksAnywhere =>
               /\ RequestsOf("merge") = {}
               /\ Len(log) = 1 /\ IsWriteAttempt(1)
               /\ log[1].doc.chunks[chunkGroupName] = << >>
               /\ exitCode = (IF IsWritten(1) THEN 0 ELSE 1)

\* neither input has the chosen group: no request, and an empty group written
C36_Witness ==
    /\ Merging /\ pc = "exited" /\ exitCode = 0
    /\ Len(inputPaths) = 2
    /\ \A n \in 1..2 : ~Has(InputDoc(n), "chunks")
    /\ log # << >> /\ IsWritten(1)
    /\ ReadFile(fs, outputPath).json.chunks[chunkGroupName] = << >>

(***************************************************************************)
(* C37  In the chat loop the transcript only grows; a request is sent      *)
(* right after the user's message is appended and carries the whole        *)
(* transcript; a failed request (transport error, non-OK status) leaves    *)
(* the transcript as it is, the user's message last and unanswered, so     *)
(* the next request sends it again; and the loop ends only at the prompt,  *)
(* by `exit` or `quit`, with exit code 0.                                  *)
(***************************************************************************)
IsPrefix(s, t) == Len(s) <= Len(t) /\ SubSeq(t, 1, Len(s)) = s

ChatRequestSent == Len(log') = Len(log) + 1 /\ log'[Len(log')].dir = "req"

ChatAnswered == Len(log') = Len(log) + 1 /\ log'[Len(log')].dir = "resp"

ChatCallFailed(resp) == ~resp.net \/ ~ok(resp)

C37_Step ==
    cmd = "chat" =>
        /\ IsPrefix(transcript, transcript')
        /\ ChatRequestSent =>
              /\ Len(transcript') = Len(transcript) + 1
              /\ transcript'[Len(transcript')].role = "user"
              /\ log'[Len(log')].doc.transcript.messages = transcript'
        /\ (ChatAnswered /\ ChatCallFailed(log'[Len(log')].resp)) =>
              /\ transcript' = transcript
              /\ transcript[Len(transcript)].role = "user"
              /\ pc' = "prompt"
        /\ (pc \in {"prompt", "wait_chat"} /\ pc' = "exited") =>
              /\ pc = "prompt"
              /\ exitCode' = 0

C37_ChatLoop == [][C37_Step]_vars

\* the same without the clause on how the loop ends
C37_TranscriptCarried ==
    [][cmd = "chat" =>
        /\ IsPrefix(transcript, transcript')
        /\ ChatRequestSent =>
              /\ Len(transcript') = Len(transcript) + 1
              /\ transcript'[Len(transcript')].role = "user"
              /\ log'[Len(log')].doc.transcript.messages = transcript'
        /\ (ChatAnswered /\ ChatCallFailed(log'[Len(log')].resp)) =>
              /\ transcript' = transcript
              /\ transcript[Len(transcript)].role = "user"
              /\ pc' = "prompt"]_vars

\* a message sent, the call failed, the same message sent again with the next
C37_Resent ==
    /\ cmd = "chat"
    /\ \E k \in 1..Len(log) :
          /\ k + 2 <= Len(log)
          /\ log[k].dir = "req"
          /\ log[k + 1].dir = "resp" /\ ChatCallFailed(log[k + 1].resp)
          /\ log[k + 2].dir = "req"
          /\ IsPrefix(log[k].doc.transcript.messages, log[k + 2].doc.transcript.messages)
          /\ Len(log[k + 2].doc.transcript.messages) = Len(log[k].doc.transcript.messages) + 1

\* the loop left by an answer of the server
C37_EndedByAnswer ==
    /\ cmd = "chat"
    /\ pc = "exited"
    /\ exitCode = 1
    /\ log # << >>
    /\ log[Len(log)].dir = "resp"

(***************************************************************************)
(* C38  The config file that convert-server-config writes has a            *)
(* baseUrlPrefix that starts with "/", as the documented "/charm" does, so *)
(* that in the endpoint the CLI builds from it a "/" follows the port.     *)
(***************************************************************************)
ConfigGenerated ==
    /\ cmd = "convert-server-config"
    /\ pc = "exited"
    /\ exitCode = 0
    /\ \E k \in 1..Len(log) :
          log[k].dir = "write" /\ log[k].ev = "write" /\ log[k].path = localPath

StartsWithSlash(prefix) == prefix # << >> /\ Head(prefix) = "/"

C38_GeneratedPrefixStartsWithSlash ==
    ConfigGenerated =>
        LET conf == ReadFile(fs, localPath).json
        IN  /\ StartsWithSlash(conf.baseUrlPrefix)
            /\ endpoint(mergedConfig(conf))[5] = "/"

\* what the code generates: a prefix without its slash, next to the port
C38_PrefixJoinsPort ==
    /\ ConfigGenerated
    /\ LET conf == ReadFile(fs, localPath).json
       IN  /\ conf.baseUrlPrefix = <<"charm">>
           /\ SubSeq(endpoint(mergedConfig(conf)), 1, 6)
                  = <<"http://", "localhost", ":", 8080, "charm", "/">>

====
